---- MODULE Spec2Model ----
(***************************************************************************)
(* BLOUcut timeline rendering core: the keyframe / animation engine        *)
(* (src/src/core/keyframe.py) and the compositor                           *)
(* (src/src/core/compositor.py).                                           *)
(*                                                                         *)
(* Python floats are modelled as exact rationals [kind, n, d] in lowest    *)
(* terms; IEEE rounding is not modelled.  The one exception is the         *)
(* Newton-Raphson solve of the Bezier easing, whose intermediate values    *)
(* are rounded to a grid of 1/FixedOne after every operation (exact        *)
(* rationals would not stay bounded over ten iterations).                  *)
(*                                                                         *)
(* The compositor works on small rasters of one colour channel.  The       *)
(* clips of the model are not rotated and sit at whole pixel offsets, or   *)
(* at offsets beyond the raster, so cv2's rotation and its sub-pixel       *)
(* interpolation are not entered.  Of the effects                          *)
(* (src/src/effects/effect_engine.py) the brightness of the colour         *)
(* correction and the noise are modelled; numpy's random generator is the  *)
(* state variable rng.                                                     *)
(***************************************************************************)
EXTENDS Integers, Sequences, FiniteSets, TLC

VARIABLES
    tracks,     \* KeyframeManager.tracks : property name -> KeyframeTrack
    clips,      \* the timeline's clip list, as handed to composite_frame
    call,       \* the operation called last, with the arguments of an add_keyframe,
                \* get_value_at_frame, from_dict or composite_frame call
    ret,        \* what that call returned (None for the calls that return nothing)
    raised,     \* the exception that call raised ("" when it returned normally)
    log,        \* what composite_frame reported, per clip it went through, in order,
                \* with the transform it resolved for the clip; what apply_effects
                \* reported, per effect of the list
    effect_list,\* the Effect objects of the list handed to apply_effects
    rng,        \* the state of numpy's global random generator
    compositor, \* the Compositor's width, height and frame_cache
    command_manager
                \* the CommandManager's max_history, command_history and
                \* current_index

-----------------------------------------------------------------------------
(* Bounds of the model.                                                    *)

\* keyframes are placed on the frames 0, 5, ..., 5 * MaxKeyIndex
MaxKeyIndex == 2
\* the largest number of keyframes an AnimationSet is grown to
MaxKeyframes == 3

KeyFrames == {5 * i : i \in 0..MaxKeyIndex}
\* frames at which the animation is evaluated: every keyframe frame, one frame
\* inside every gap, and frames past the last keyframe frame
QueryFrames == {f \in 0..(5 * MaxKeyIndex + 2) : f % 5 \in {0, 2}}

\* the property add_keyframe and remove_keyframe are called on; opacity tracks
\* come from persisted sets
EditProps == {"position_x"}
Props == EditProps \cup {"opacity"}

-----------------------------------------------------------------------------
(* Values.  A keyframe value is a number, a list/tuple of values, or a     *)
(* value of some other type (a string).                                    *)

RECURSIVE GCD(_, _)
GCD(a, b) == IF b = 0 THEN a ELSE GCD(b, a % b)

Abs(x) == IF x < 0 THEN -x ELSE x

\* the rational n/d in lowest terms, d > 0
Num(n, d) ==
    LET s == IF d < 0 THEN -1 ELSE 1
        g == GCD(Abs(n), Abs(d))
    IN  [kind |-> "num", n |-> (s * n) \div g, d |-> (s * d) \div g]

Whole(n) == Num(n, 1)
Str(s) == [kind |-> "str", s |-> s]
Vec(cls, elems) == [kind |-> "vec", cls |-> cls, elems |-> elems]
None == [kind |-> "none"]

IsNum(v) == v.kind = "num"
IsVec(v) == v.kind = "vec"

RAdd(a, b) == Num(a.n * b.d + b.n * a.d, a.d * b.d)
RSub(a, b) == Num(a.n * b.d - b.n * a.d, a.d * b.d)
RMul(a, b) == Num(a.n * b.n, a.d * b.d)
RLess(a, b) == a.n * b.d < b.n * a.d
\* min(a, b), max(a, b)
RMin(a, b) == IF RLess(b, a) THEN b ELSE a
RMax(a, b) == IF RLess(a, b) THEN b ELSE a

Half == Num(1, 2)

-----------------------------------------------------------------------------
(* InterpolationType and Keyframe.                                         *)

InterpolationType ==
    {"LINEAR", "EASE_IN", "EASE_OUT", "EASE_IN_OUT", "BEZIER", "HOLD"}

\* InterpolationType.<member>.value
InterpolationValue(member) ==
    CASE member = "LINEAR"      -> "linear"
      [] member = "EASE_IN"     -> "ease_in"
      [] member = "EASE_OUT"    -> "ease_out"
      [] member = "EASE_IN_OUT" -> "ease_in_out"
      [] member = "BEZIER"      -> "bezier"
      [] member = "HOLD"        -> "hold"

\* the strings InterpolationType(<string>) accepts
InterpolationStrings == {InterpolationValue(m) : m \in InterpolationType}

\* InterpolationType(<string>); only called on a string it accepts
InterpolationOf(s) == CHOOSE m \in InterpolationType : InterpolationValue(m) = s

DefaultControlPoint1 == <<Num(1, 4), Num(1, 10)>>
DefaultControlPoint2 == <<Num(1, 4), Num(1, 1)>>

\* Keyframe.__init__
Keyframe(frame, value, interpolation) ==
    [frame |-> frame, value |-> value, interpolation |-> interpolation,
     control_point_1 |-> DefaultControlPoint1,
     control_point_2 |-> DefaultControlPoint2]

\* KeyframeTrack.__init__
KeyframeTrack(property_name) ==
    [property_name |-> property_name, keyframes |-> <<>>, enabled |-> TRUE]

-----------------------------------------------------------------------------
(* KeyframeTrack: mutation.                                                *)

\* [kf for kf in keyframes if kf.frame != frame]
RECURSIVE WithoutFrame(_, _)
WithoutFrame(keyframes, frame) ==
    IF keyframes = <<>> THEN <<>>
    ELSE IF Head(keyframes).frame # frame
         THEN <<Head(keyframes)>> \o WithoutFrame(Tail(keyframes), frame)
         ELSE WithoutFrame(Tail(keyframes), frame)

\* insert kf into the sorted list after every keyframe whose frame is <= kf.frame
RECURSIVE InsertByFrame(_, _)
InsertByFrame(sorted, kf) ==
    IF sorted = <<>> THEN <<kf>>
    ELSE IF kf.frame < Head(sorted).frame THEN <<kf>> \o sorted
         ELSE <<Head(sorted)>> \o InsertByFrame(Tail(sorted), kf)

\* add_keyframe without the sort
SortByFrame_Unsorted(keyframes) == keyframes

\* keyframes.sort(key=lambda kf: kf.frame): stable, ascending by frame
RECURSIVE SortByFrame(_)
SortByFrame(keyframes) ==
    IF keyframes = <<>> THEN <<>>
    ELSE InsertByFrame(SortByFrame(SubSeq(keyframes, 1, Len(keyframes) - 1)),
                       keyframes[Len(keyframes)])

\* KeyframeTrack.remove_keyframe_at_frame
TrackRemoveKeyframeAtFrame(track, frame) ==
    [track EXCEPT !.keyframes = WithoutFrame(@, frame)]

\* add_keyframe without remove_keyframe_at_frame(frame)
TrackAddKeyframe_KeepingOld(track, frame, value, interpolation) ==
    [track EXCEPT !.keyframes =
        SortByFrame(Append(@, Keyframe(frame, value, interpolation)))]

\* KeyframeTrack.add_keyframe
TrackAddKeyframe(track, frame, value, interpolation) ==
    LET removed == TrackRemoveKeyframeAtFrame(track, frame)
        appended == Append(removed.keyframes, Keyframe(frame, value, interpolation))
    IN  [removed EXCEPT !.keyframes = SortByFrame(appended)]

-----------------------------------------------------------------------------
(* KeyframeTrack: evaluation.                                              *)

\* resolution of the fixed-point grid of the Bezier solve
FixedOne == 10000
\* for _ in range(10)
NewtonIterations == 10

ToFixed(r) == (r.n * FixedOne) \div r.d
FMul(a, b) == (a * b) \div FixedOne
FDiv(a, b) == IF b > 0 THEN (a * FixedOne) \div b ELSE ((-a) * FixedOne) \div (-b)
\* abs(x) < 0.001, abs(x) > 0.001
BelowTolerance(x) == Abs(x) * 1000 < FixedOne
AboveTolerance(x) == Abs(x) * 1000 > FixedOne
Clamp01(x) == IF x < 0 THEN 0 ELSE IF x > FixedOne THEN FixedOne ELSE x

\* 3(1-t)^2 t c1 + 3(1-t) t^2 c2 + t^3: one coordinate of the curve at t
BezierCoordinate(t, c1, c2) ==
    FMul(FMul(FMul(3 * (FixedOne - t), FixedOne - t), t), c1)
    + FMul(FMul(FMul(3 * (FixedOne - t), t), t), c2)
    + FMul(FMul(t, t), t)

\* dx_dt as the code computes it
BezierSlope(t, c1, c2) ==
    FMul(FMul(3 * (FixedOne - t), FixedOne - t), c1)
    - FMul(FMul(6 * (FixedOne - t), t), c1)
    + FMul(FMul(3 * (FixedOne - t), t), c2)
    + FMul(FMul(3 * t, t), c2 - c1)
    + FMul(3 * t, t)

\* the Newton-Raphson loop: the t_estimate it ends with
RECURSIVE NewtonSolve(_, _, _, _, _)
NewtonSolve(t_estimate, x_target, c1x, c2x, left) ==
    IF left = 0 THEN t_estimate
    ELSE LET x_current == BezierCoordinate(t_estimate, c1x, c2x)
             dx_dt == BezierSlope(t_estimate, c1x, c2x)
         IN  IF BelowTolerance(x_current - x_target) THEN t_estimate
             ELSE IF AboveTolerance(dx_dt)
                  THEN NewtonSolve(Clamp01(t_estimate - FDiv(x_current - x_target, dx_dt)),
                                   x_target, c1x, c2x, left - 1)
                  ELSE NewtonSolve(t_estimate, x_target, c1x, c2x, left - 1)

\* the y coordinate of the curve at the solved parameter, before the final clamp
BezierY(t, cp1, cp2) ==
    LET t_estimate == NewtonSolve(ToFixed(t), ToFixed(t), ToFixed(cp1[1]),
                                  ToFixed(cp2[1]), NewtonIterations)
    IN  BezierCoordinate(t_estimate, ToFixed(cp1[2]), ToFixed(cp2[2]))

\* _bezier_interpolation without the final clamp
BezierInterpolation_Unclamped(t, cp1, cp2) == Num(BezierY(t, cp1, cp2), FixedOne)

\* KeyframeTrack._bezier_interpolation
BezierInterpolation(t, cp1, cp2) == Num(Clamp01(BezierY(t, cp1, cp2)), FixedOne)

\* the hard cut: start_value if progress < 0.5 else end_value
HardCut(start_value, end_value, progress) ==
    IF RLess(progress, Half) THEN start_value ELSE end_value

\* the blend taken from the wrong end
Blend_Swapped(start_value, end_value, progress) ==
    RAdd(end_value, RMul(RSub(start_value, end_value), progress))

\* start_value + (end_value - start_value) * progress
Blend(start_value, end_value, progress) ==
    RAdd(start_value, RMul(RSub(end_value, start_value), progress))

\* KeyframeTrack._interpolate_values
InterpolateValues(start_value, end_value, progress) ==
    IF IsNum(start_value) /\ IsNum(end_value)
    THEN Blend(start_value, end_value, progress)
    ELSE IF /\ IsVec(start_value) /\ IsVec(end_value)
            /\ Len(start_value.elems) = Len(end_value.elems)
         THEN Vec(start_value.cls,
                  [i \in 1..Len(start_value.elems) |->
                      IF IsNum(start_value.elems[i]) /\ IsNum(end_value.elems[i])
                      THEN Blend(start_value.elems[i], end_value.elems[i], progress)
                      ELSE HardCut(start_value.elems[i], end_value.elems[i], progress)])
         ELSE HardCut(start_value, end_value, progress)

\* the progress after the reshaping by prev_kf.interpolation (not reached for HOLD)
ReshapedProgress(prev_kf, progress) ==
    LET one == Whole(1)
        rest == RSub(one, progress)
    IN  CASE prev_kf.interpolation = "EASE_IN" -> RMul(progress, progress)
          [] prev_kf.interpolation = "EASE_OUT" -> RSub(one, RMul(rest, rest))
          [] prev_kf.interpolation = "EASE_IN_OUT" ->
                IF RLess(progress, Half)
                THEN RMul(Whole(2), RMul(progress, progress))
                ELSE RSub(one, RMul(Whole(2), RMul(rest, rest)))
          [] prev_kf.interpolation = "BEZIER" ->
                BezierInterpolation(progress, prev_kf.control_point_1,
                                    prev_kf.control_point_2)
          [] OTHER -> progress

\* _interpolate holding on the interpolation of the next keyframe
Interpolate_HoldOfNext(prev_kf, next_kf, frame) ==
    LET progress == Num(frame - prev_kf.frame, next_kf.frame - prev_kf.frame)
    IN  IF next_kf.interpolation = "HOLD" THEN prev_kf.value
        ELSE InterpolateValues(prev_kf.value, next_kf.value,
                               ReshapedProgress(prev_kf, progress))

\* KeyframeTrack._interpolate
Interpolate(prev_kf, next_kf, frame) ==
    LET progress == Num(frame - prev_kf.frame, next_kf.frame - prev_kf.frame)
    IN  IF prev_kf.interpolation = "HOLD" THEN prev_kf.value
        ELSE InterpolateValues(prev_kf.value, next_kf.value,
                               ReshapedProgress(prev_kf, progress))

\* the second loop of get_value_at_frame: the bracketing pair it ends with
RECURSIVE FindBracket(_, _, _)
FindBracket(keyframes, frame, prev_keyframe) ==
    IF keyframes = <<>> THEN [prev |-> prev_keyframe, next |-> None]
    ELSE IF Head(keyframes).frame < frame
         THEN FindBracket(Tail(keyframes), frame, Head(keyframes))
         ELSE IF Head(keyframes).frame > frame
              THEN [prev |-> prev_keyframe, next |-> Head(keyframes)]
              ELSE FindBracket(Tail(keyframes), frame, prev_keyframe)

\* the first loop of get_value_at_frame: the keyframes exactly at the frame
RECURSIVE ExactHits(_, _)
ExactHits(keyframes, frame) ==
    IF keyframes = <<>> THEN <<>>
    ELSE IF Head(keyframes).frame = frame
         THEN <<Head(keyframes)>> \o ExactHits(Tail(keyframes), frame)
         ELSE ExactHits(Tail(keyframes), frame)

\* get_value_at_frame without the exact-hit loop
TrackGetValueAtFrame_NoExactHit(track, frame) ==
    IF ~track.enabled \/ track.keyframes = <<>> THEN None
    ELSE LET b == FindBracket(track.keyframes, frame, None)
         IN  IF b.prev = None THEN track.keyframes[1].value
             ELSE IF b.next = None THEN b.prev.value
                  ELSE Interpolate(b.prev, b.next, frame)

\* get_value_at_frame clamping to the first keyframe on both sides
TrackGetValueAtFrame_ClampFirst(track, frame) ==
    IF ~track.enabled \/ track.keyframes = <<>> THEN None
    ELSE IF ExactHits(track.keyframes, frame) # <<>>
         THEN Head(ExactHits(track.keyframes, frame)).value
         ELSE LET b == FindBracket(track.keyframes, frame, None)
              IN  IF b.prev = None \/ b.next = None THEN track.keyframes[1].value
                  ELSE Interpolate(b.prev, b.next, frame)

\* get_value_at_frame that does not look at the enabled flag
TrackGetValueAtFrame_IgnoresEnabled(track, frame) ==
    IF track.keyframes = <<>> THEN None
    ELSE IF ExactHits(track.keyframes, frame) # <<>>
         THEN Head(ExactHits(track.keyframes, frame)).value
         ELSE LET b == FindBracket(track.keyframes, frame, None)
              IN  IF b.prev = None THEN track.keyframes[1].value
                  ELSE IF b.next = None THEN b.prev.value
                       ELSE Interpolate(b.prev, b.next, frame)

\* KeyframeTrack.get_value_at_frame
TrackGetValueAtFrame(track, frame) ==
    IF ~track.enabled \/ track.keyframes = <<>> THEN None
    ELSE IF ExactHits(track.keyframes, frame) # <<>>
         THEN Head(ExactHits(track.keyframes, frame)).value
         ELSE LET b == FindBracket(track.keyframes, frame, None)
              IN  IF b.prev = None THEN track.keyframes[1].value
                  ELSE IF b.next = None THEN b.prev.value
                       ELSE Interpolate(b.prev, b.next, frame)

\* KeyframeManager.get_value_at_frame
GetValueAtFrame(mgr, property_name, frame) ==
    IF property_name \notin DOMAIN mgr THEN None
    ELSE TrackGetValueAtFrame(mgr[property_name], frame)

-----------------------------------------------------------------------------
(* The persisted representation: to_dict and from_dict.  A persisted       *)
(* dictionary is a record; a key the dictionary lacks is a field the       *)
(* record lacks.                                                           *)

\* data.get(key, default)
Get(data, key, default) == IF key \in DOMAIN data THEN data[key] ELSE default

\* to_dict that leaves the control points out
KeyframeToDict_NoControlPoints(kf) ==
    [frame |-> kf.frame, value |-> kf.value,
     interpolation |-> InterpolationValue(kf.interpolation)]

\* Keyframe.to_dict
KeyframeToDict(kf) ==
    [frame |-> kf.frame, value |-> kf.value,
     interpolation |-> InterpolationValue(kf.interpolation),
     control_point_1 |-> kf.control_point_1,
     control_point_2 |-> kf.control_point_2]

\* the exception Keyframe.from_dict raises on data, "" when it raises none
KeyframeFromDictRaises(data) ==
    IF "frame" \notin DOMAIN data \/ "value" \notin DOMAIN data THEN "KeyError"
    ELSE IF Get(data, "interpolation", "linear") \notin InterpolationStrings
         THEN "ValueError"
         ELSE ""

\* Keyframe.from_dict, where it raises nothing
KeyframeFromDict(data) ==
    [Keyframe(data.frame, data.value,
              InterpolationOf(Get(data, "interpolation", "linear")))
        EXCEPT !.control_point_1 = Get(data, "control_point_1", DefaultControlPoint1),
               !.control_point_2 = Get(data, "control_point_2", DefaultControlPoint2)]

\* KeyframeTrack.to_dict
TrackToDict(track) ==
    [property_name |-> track.property_name, enabled |-> track.enabled,
     keyframes |-> [i \in 1..Len(track.keyframes) |-> KeyframeToDict(track.keyframes[i])]]

\* the exception KeyframeTrack.from_dict raises on data, "" when it raises none
TrackFromDictRaises(data) ==
    IF "property_name" \notin DOMAIN data THEN "KeyError"
    ELSE LET kfs == Get(data, "keyframes", <<>>)
             bad == {i \in 1..Len(kfs) : KeyframeFromDictRaises(kfs[i]) # ""}
         IN  IF bad = {} THEN ""
             ELSE KeyframeFromDictRaises(kfs[CHOOSE i \in bad : \A j \in bad : i <= j])

\* KeyframeTrack.from_dict, where it raises nothing
TrackFromDict(data) ==
    LET kfs == Get(data, "keyframes", <<>>)
    IN  [property_name |-> data.property_name,
         enabled |-> Get(data, "enabled", TRUE),
         keyframes |-> [i \in 1..Len(kfs) |-> KeyframeFromDict(kfs[i])]]

\* KeyframeManager.to_dict
ManagerToDict(mgr) ==
    [tracks |-> [prop \in DOMAIN mgr |-> TrackToDict(mgr[prop])]]

\* the exception KeyframeManager.from_dict raises on data, "" when it raises none
ManagerFromDictRaises(data) ==
    LET tracks_data == Get(data, "tracks", <<>>)
        bad == {prop \in DOMAIN tracks_data : TrackFromDictRaises(tracks_data[prop]) # ""}
    IN  IF bad = {} THEN "" ELSE TrackFromDictRaises(tracks_data[CHOOSE prop \in bad : TRUE])

\* KeyframeManager.from_dict, where it raises nothing
ManagerFromDict(data) ==
    LET tracks_data == Get(data, "tracks", <<>>)
    IN  [prop \in DOMAIN tracks_data |-> TrackFromDict(tracks_data[prop])]

-----------------------------------------------------------------------------
(* Inputs of the animation API.                                            *)

\* the arguments add_keyframe is called with: the property is keyed with the value
\* 100 under every interpolation and with the value 0 under LINEAR
AddInputs ==
    [property_name : EditProps, frame : KeyFrames,
     value : {Whole(100)}, interpolation : InterpolationType]
    \cup
    [property_name : EditProps, frame : KeyFrames,
     value : {Whole(0)}, interpolation : {"LINEAR"}]

\* persisted keyframes, with every key present
PKf(frame, value, interpolation) ==
    [frame |-> frame, value |-> value, interpolation |-> interpolation,
     control_point_1 |-> DefaultControlPoint1,
     control_point_2 |-> DefaultControlPoint2]

PTrack(property_name, enabled, keyframes) ==
    [property_name |-> property_name, enabled |-> enabled, keyframes |-> keyframes]

\* a Bezier curve that leaves [0,1] upwards, one that leaves it downwards
OvershootTrack ==
    PTrack("position_x", TRUE,
        << [PKf(0, Whole(0), "bezier")
                EXCEPT !.control_point_1 = <<Num(1, 4), Num(3, 2)>>,
                       !.control_point_2 = <<Num(3, 4), Num(2, 1)>>],
           [PKf(5, Whole(100), "bezier")
                EXCEPT !.control_point_1 = <<Num(1, 2), Num(-1, 1)>>,
                       !.control_point_2 = <<Num(1, 2), Num(-1, 2)>>],
           PKf(10, Whole(0), "linear") >>)

HoldTrack ==
    PTrack("position_x", TRUE, << PKf(0, Whole(5), "hold"), PKf(10, Whole(99), "linear") >>)

DisabledTrack ==
    PTrack("opacity", FALSE, << PKf(0, Whole(100), "linear"), PKf(10, Whole(0), "ease_in") >>)

\* a track and keyframes that leave the optional keys out
SparseTrack ==
    [property_name |-> "opacity",
     keyframes |-> << [frame |-> 0, value |-> Whole(100)],
                      [frame |-> 5, value |-> Num(25, 2), interpolation |-> "ease_out"] >>]

\* values that are not numbers
MixedTrack ==
    PTrack("position_x", TRUE,
        << PKf(0, Vec("tuple", <<Whole(0), Str("a")>>), "linear"),
           PKf(5, Vec("list", <<Whole(50), Str("b")>>), "ease_in_out"),
           PKf(10, Str("c"), "linear") >>)

\* a keyframe with an interpolation string that is no InterpolationType
UnknownInterpolationTrack ==
    PTrack("opacity", TRUE, << PKf(0, Whole(100), "linear"), PKf(5, Whole(0), "cubic") >>)

LinearTrack ==
    PTrack("position_x", TRUE, << PKf(0, Whole(0), "linear"), PKf(10, Whole(100), "linear") >>)

\* the persisted AnimationSets from_dict is called on, by name
PersistedInputs ==
    [ overshoot |-> [tracks |-> [position_x |-> OvershootTrack]],
      hold      |-> [tracks |-> [position_x |-> HoldTrack]],
      disabled  |-> [tracks |-> [opacity |-> DisabledTrack]],
      sparse    |-> [tracks |-> [opacity |-> SparseTrack]],
      mixed     |-> [tracks |-> [position_x |-> MixedTrack]],
      unknown   |-> [tracks |-> [position_x |-> LinearTrack,
                                 opacity |-> UnknownInterpolationTrack]],
      empty     |-> [other |-> 0] ]

\* len(track.keyframes) summed over the tracks
RECURSIVE TotalKeyframes(_)
TotalKeyframes(mgr) ==
    IF DOMAIN mgr = {} THEN 0
    ELSE LET prop == CHOOSE q \in DOMAIN mgr : TRUE
         IN  Len(mgr[prop].keyframes)
             + TotalKeyframes([q \in DOMAIN mgr \ {prop} |-> mgr[q]])

Call(op, property_name, frame, arg) ==
    [op |-> op, property_name |-> property_name, frame |-> frame, arg |-> arg]

-----------------------------------------------------------------------------
(* KeyframeManager: the operations.                                        *)

\* KeyframeManager.add_keyframe
ManagerAddKeyframe(mgr, property_name, frame, value, interpolation) ==
    LET track == IF property_name \in DOMAIN mgr THEN mgr[property_name]
                 ELSE KeyframeTrack(property_name)
    IN  [prop \in DOMAIN mgr \cup {property_name} |->
            IF prop = property_name
            THEN TrackAddKeyframe(track, frame, value, interpolation)
            ELSE mgr[prop]]

\* KeyframeManager.remove_keyframe
ManagerRemoveKeyframe(mgr, property_name, frame) ==
    IF property_name \in DOMAIN mgr
    THEN [mgr EXCEPT ![property_name] = TrackRemoveKeyframeAtFrame(@, frame)]
    ELSE mgr

\* KeyframeManager.clear_property_keyframes
ManagerClearProperty(mgr, property_name) ==
    [prop \in DOMAIN mgr \ {property_name} |-> mgr[prop]]

KfInit ==
    /\ tracks = <<>>
    /\ call = Call("__init__", "", -1, "")
    /\ ret = None
    /\ raised = ""
    /\ clips = <<>>
    /\ log = <<>>
    /\ effect_list = <<>>
    /\ rng = 0
    /\ compositor = None
    /\ command_manager = None

\* an add_keyframe call grows the AnimationSet up to MaxKeyframes keyframes, and
\* replaces a keyframe of a set of any size
WithinBounds(before, after) ==
    \/ TotalKeyframes(after) <= MaxKeyframes
    \/ TotalKeyframes(after) <= TotalKeyframes(before)

AddKeyframe(in) ==
    LET after == ManagerAddKeyframe(tracks, in.property_name, in.frame, in.value,
                                    in.interpolation)
    IN  /\ WithinBounds(tracks, after)
        /\ tracks' = after
        /\ call' = Call("add_keyframe", in.property_name, in.frame,
                        [value |-> in.value, interpolation |-> in.interpolation])
        /\ ret' = None
        /\ raised' = ""
        /\ UNCHANGED <<clips, log, effect_list, rng, compositor, command_manager>>

RemoveKeyframe(property_name, frame) ==
    /\ tracks' = ManagerRemoveKeyframe(tracks, property_name, frame)
    /\ call' = Call("remove_keyframe", "", -1, "")
    /\ ret' = None
    /\ raised' = ""
    /\ UNCHANGED <<clips, log, effect_list, rng, compositor, command_manager>>

ClearAllKeyframes ==
    /\ tracks' = <<>>
    /\ call' = Call("clear_all_keyframes", "", -1, "")
    /\ ret' = None
    /\ raised' = ""
    /\ UNCHANGED <<clips, log, effect_list, rng, compositor, command_manager>>

ClearPropertyKeyframes(property_name) ==
    /\ tracks' = ManagerClearProperty(tracks, property_name)
    /\ call' = Call("clear_property_keyframes", "", -1, "")
    /\ ret' = None
    /\ raised' = ""
    /\ UNCHANGED <<clips, log, effect_list, rng, compositor, command_manager>>

\* manager = KeyframeManager.from_dict(data): the loaded set replaces the current
\* one; when from_dict raises there is no loaded set and the current one stays
FromDict(name) ==
    LET data == PersistedInputs[name]
    IN  /\ call' = Call("from_dict", "", -1, name)
        /\ ret' = None
        /\ raised' = ManagerFromDictRaises(data)
        /\ IF ManagerFromDictRaises(data) = ""
           THEN tracks' = ManagerFromDict(data)
           ELSE UNCHANGED tracks
        /\ UNCHANGED <<clips, log, effect_list, rng, compositor, command_manager>>

\* manager = KeyframeManager.from_dict(manager.to_dict())
RoundTrip ==
    LET data == ManagerToDict(tracks)
    IN  /\ call' = Call("from_dict", "", -1, "to_dict")
        /\ ret' = None
        /\ raised' = ManagerFromDictRaises(data)
        /\ IF ManagerFromDictRaises(data) = ""
           THEN tracks' = ManagerFromDict(data)
           ELSE UNCHANGED tracks
        /\ UNCHANGED <<clips, log, effect_list, rng, compositor, command_manager>>

vars == <<tracks, clips, call, ret, raised, log, effect_list, rng, compositor,
          command_manager>>

\* The editing session of one AnimationSet.
Init == KfInit

Next ==
    \/ \E in \in AddInputs : AddKeyframe(in)
    \/ \E property_name \in EditProps, frame \in KeyFrames :
            RemoveKeyframe(property_name, frame)
    \/ ClearAllKeyframes
    \/ \E property_name \in Props : ClearPropertyKeyframes(property_name)
    \/ \E name \in DOMAIN PersistedInputs : FromDict(name)
    \/ RoundTrip

Spec == Init /\ [][Next]_vars

-----------------------------------------------------------------------------
(* Evaluation of an AnimationSet an editing session has left.              *)

\* the AnimationSets from_dict loads from the persisted inputs
LoadedManagers ==
    {ManagerFromDict(PersistedInputs[name]) :
        name \in {n \in DOMAIN PersistedInputs :
                    ManagerFromDictRaises(PersistedInputs[n]) = ""}}

\* the AnimationSets left by at most n add_keyframe / remove_keyframe calls on an
\* empty or a loaded AnimationSet
RECURSIVE EditedManagers(_)
EditedManagers(n) ==
    IF n = 0 THEN {<<>>} \cup LoadedManagers
    ELSE LET before == EditedManagers(n - 1)
         IN  before
             \cup {ManagerRemoveKeyframe(mgr, property_name, frame) :
                      mgr \in before, property_name \in EditProps, frame \in KeyFrames}
             \cup {after \in {ManagerAddKeyframe(mgr, in.property_name, in.frame,
                                                 in.value, in.interpolation) :
                                 mgr \in before, in \in AddInputs} :
                      TotalKeyframes(after) <= MaxKeyframes}

EvalInit ==
    /\ tracks \in EditedManagers(MaxKeyframes)
    /\ call = Call("__init__", "", -1, "")
    /\ ret = None
    /\ raised = ""
    /\ clips = <<>>
    /\ log = <<>>
    /\ effect_list = <<>>
    /\ rng = 0
    /\ compositor = None
    /\ command_manager = None

\* evaluate(property, frame)
Evaluate(property_name, frame) ==
    /\ ret' = GetValueAtFrame(tracks, property_name, frame)
    /\ call' = Call("get_value_at_frame", property_name, frame, "")
    /\ raised' = ""
    /\ UNCHANGED tracks
    /\ UNCHANGED <<clips, log, effect_list, rng, compositor, command_manager>>

EvalNext ==
    \E property_name \in Props, frame \in QueryFrames : Evaluate(property_name, frame)

SpecEvaluate == EvalInit /\ [][EvalNext]_vars

-----------------------------------------------------------------------------
(* Loading persisted AnimationSets whose keyframes arrays are out of order *)
(* or repeat a frame, and evaluating what was loaded.                      *)

DisorderedInputs ==
    [ descending |-> [tracks |-> [position_x |->
                        PTrack("position_x", TRUE,
                               << PKf(10, Whole(100), "linear"),
                                  PKf(0, Whole(0), "linear") >>)]],
      repeated   |-> [tracks |-> [position_x |->
                        PTrack("position_x", TRUE,
                               << PKf(0, Whole(0), "linear"),
                                  PKf(5, Whole(50), "linear"),
                                  PKf(5, Whole(70), "hold") >>)]],
      shuffled   |-> [tracks |-> [opacity |->
                        PTrack("opacity", TRUE,
                               << PKf(5, Whole(50), "linear"),
                                  PKf(10, Whole(100), "linear"),
                                  PKf(0, Whole(0), "linear") >>)]] ]

\* manager = KeyframeManager.from_dict(data) of one of these
FromDictDisordered(name) ==
    LET data == DisorderedInputs[name]
    IN  /\ call' = Call("from_dict", "", -1, name)
        /\ ret' = None
        /\ raised' = ManagerFromDictRaises(data)
        /\ IF ManagerFromDictRaises(data) = ""
           THEN tracks' = ManagerFromDict(data)
           ELSE UNCHANGED tracks
        /\ UNCHANGED <<clips, log, effect_list, rng, compositor, command_manager>>

LoadNext ==
    \/ \E name \in DOMAIN DisorderedInputs : FromDictDisordered(name)
    \/ \E name \in DOMAIN PersistedInputs : FromDict(name)
    \/ \E property_name \in Props, frame \in QueryFrames : Evaluate(property_name, frame)

SpecLoad == KfInit /\ [][LoadNext]_vars

-----------------------------------------------------------------------------
(* The compositor: rasters.  A raster is one colour channel of a numpy     *)
(* array of dtype uint8 (the three channels go through the same            *)
(* arithmetic); pixel <<y, x>> is row y, column x.                          *)

\* Compositor.width, Compositor.height of the model
Width == 4
Height == 2
\* the longest clip list, and the last frame, composite_frame is called with
MaxClips == 2
MaxCompositeFrame == 4

Raster(height, width, px) ==
    [kind |-> "image", height |-> height, width |-> width, px |-> px]

Pixels(height, width) == (0..(height - 1)) \X (0..(width - 1))

\* np.full((height, width), colour) and np.zeros((height, width))
Full(height, width, colour) ==
    Raster(height, width, [p \in Pixels(height, width) |-> colour])

SameShape(a, b) == a.height = b.height /\ a.width = b.width

\* int(x) of a float: truncation towards zero
TruncInt(r) == IF r.n >= 0 THEN r.n \div r.d ELSE -((-r.n) \div r.d)

\* cv2.resize(image, (new_w, new_h)); the rasters resized here are of one
\* colour, which every interpolation of cv2 keeps: the model samples the nearest
\* source pixel
Resize(image, new_h, new_w) ==
    Raster(new_h, new_w,
           [p \in Pixels(new_h, new_w) |->
                image.px[<<(p[1] * image.height) \div new_h,
                           (p[2] * image.width) \div new_w>>]])

\* (base * (1 - opacity) + overlay * opacity).astype(np.uint8), one pixel
BlendPixel(base, overlay, opacity) ==
    ((base * (opacity.d - opacity.n) + overlay * opacity.n) \div opacity.d) % 256

-----------------------------------------------------------------------------
(* The frame source: the media files on disk.  A media path is its stem    *)
(* and its extension.                                                      *)

MediaPath(stem, ext) == [stem |-> stem, ext |-> ext]

Picture == MediaPath("a", ".png")
MissingPicture == MediaPath("gone", ".jpg")
Movie == MediaPath("b", ".mp4")
MissingMovie == MediaPath("gone", ".mp4")
Song == MediaPath("c", ".mp3")
NoPath == MediaPath("", "")

MediaPaths == {Picture, MissingPicture, Movie, MissingMovie, Song, NoPath}

\* os.path.exists(path)
Exists(path) == path \in {Picture, Movie, Song}

\* cv2.imread(path) of a file that exists: the picture is 2 x 2, of one colour
ImRead(path) == IF path = Picture THEN Full(2, 2, 200) ELSE None

\* cv2.imread(MediaAnalyzer.get_thumbnail_path(path, frame_num / fps)) at 30
\* frames a second: one thumbnail per tenth of a second (round(time_seconds, 1)),
\* each of one colour; none for a file that does not exist
Thumbnail(path, frame_num) ==
    IF Exists(path) THEN Full(1, 2, (100 + (2 * frame_num + 3) \div 6) % 256)
    ELSE None

\* TimelineClip._determine_clip_type, as the string of the ClipType
DetermineClipType(media_path) ==
    IF media_path = NoPath THEN "text"
    ELSE IF media_path.ext \in {".mp4", ".avi", ".mov", ".mkv", ".wmv", ".flv", ".webm"}
         THEN "video"
    ELSE IF media_path.ext \in {".mp3", ".wav", ".aac", ".ogg", ".m4a", ".flac"}
         THEN "audio"
    ELSE IF media_path.ext \in {".jpg", ".jpeg", ".png", ".bmp", ".gif", ".tiff"}
         THEN "image"
    ELSE "text"

\* TimelineClip.__init__
TimelineClip(media_path, start_frame, track) ==
    [media_path |-> media_path,
     name |-> IF media_path = NoPath THEN MediaPath("new clip", "") ELSE media_path,
     start_frame |-> start_frame, track |-> track, duration |-> 90,
     media_type |-> DetermineClipType(media_path),
     position_x |-> Whole(0), position_y |-> Whole(0),
     scale_x |-> Whole(1), scale_y |-> Whole(1),
     rotation |-> Whole(0), opacity |-> Whole(100),
     fade_in |-> 0, fade_out |-> 0,
     effects |-> <<>>, keyframes |-> <<>>]

-----------------------------------------------------------------------------
(* The compositor: the layer of one clip.                                  *)

\* Transform.__init__
Transform ==
    [position_x |-> Whole(0), position_y |-> Whole(0),
     scale_x |-> Whole(100), scale_y |-> Whole(100),
     rotation |-> Whole(0), opacity |-> Whole(100)]

\* if value is not None: setattr(self, prop, value)
SetUnlessNone(current, value) == IF value # None THEN value ELSE current

\* Transform.apply_keyframes
ApplyKeyframes(transform, keyframes, frame) ==
    [prop \in DOMAIN transform |->
        SetUnlessNone(transform[prop], GetValueAtFrame(keyframes, prop, frame))]

\* the layer whose keyframes are read at the frame of the timeline
CompositeLayer_TimelineFrame(clip, frame) ==
    [clip |-> clip, frame |-> frame, relative_frame |-> frame - clip.start_frame,
     transform |->
        [ApplyKeyframes(Transform, clip.keyframes, frame) EXCEPT !.opacity = clip.opacity],
     visible |-> TRUE, blend_mode |-> "normal", raised |-> ""]

\* the layer whose guard also replaces an opacity of 50
CompositeLayer_GuardAtFifty(clip, frame) ==
    LET layer == [clip |-> clip, frame |-> frame,
                  relative_frame |-> frame - clip.start_frame,
                  transform |-> [ApplyKeyframes(Transform, clip.keyframes,
                                                frame - clip.start_frame)
                                    EXCEPT !.opacity = clip.opacity],
                  visible |-> TRUE, blend_mode |-> "normal", raised |-> ""]
    IN  IF RLess(Whole(50), clip.opacity) THEN layer
        ELSE [layer EXCEPT !.transform.opacity = Whole(100)]

\* CompositeLayer.__init__; raised names the exception of a += on an animated
\* value that is no number.  A TimelineClip has no attribute scale.
CompositeLayer(clip, frame) ==
    LET relative_frame == frame - clip.start_frame
        animated == ApplyKeyframes(Transform, clip.keyframes, relative_frame)
        raises == \E prop \in {"position_x", "position_y", "rotation"} :
                        ~IsNum(animated[prop])
        static == [animated EXCEPT !.position_x = RAdd(@, clip.position_x),
                                   !.position_y = RAdd(@, clip.position_y),
                                   !.rotation = RAdd(@, clip.rotation),
                                   !.opacity = clip.opacity]
        guarded == IF RLess(static.opacity, Whole(50))
                   THEN [static EXCEPT !.opacity = Whole(100)]
                   ELSE static
    IN  [clip |-> clip, frame |-> frame, relative_frame |-> relative_frame,
         transform |-> IF raises THEN animated ELSE guarded,
         visible |-> TRUE, blend_mode |-> "normal",
         raised |-> IF raises THEN "TypeError" ELSE ""]

\* Compositor._load_image: the picture letterboxed into the frame
LoadImage(image_path) ==
    IF ~Exists(image_path) THEN None
    ELSE LET image == ImRead(image_path)
         IN  IF image = None THEN None
             ELSE LET scale == RMin(Num(Width, image.width), Num(Height, image.height))
                      new_w == TruncInt(RMul(Whole(image.width), scale))
                      new_h == TruncInt(RMul(Whole(image.height), scale))
                  IN  Resize(image, new_h, new_w)

\* Compositor._create_placeholder: the dark grey canvas (its text is left out)
CreatePlaceholder == Full(Height, Width, 50)

\* Compositor._load_video_frame: the thumbnail stretched over the frame, the
\* placeholder when there is none
LoadVideoFrame(video_path, frame_num) ==
    LET image == Thumbnail(video_path, frame_num)
    IN  IF image # None THEN Resize(image, Height, Width) ELSE CreatePlaceholder

\* Compositor._render_audio_visualization: the gradient of the canvas (the
\* waveform and the caption drawn over it are left out)
RenderAudioVisualization(clip, frame) ==
    Raster(Height, Width,
           [p \in Pixels(Height, Width) |-> 20 + (20 * p[1]) \div Height])

\* cv2.convertScaleAbs(image, alpha, beta): |pixel * alpha + beta| rounded to the
\* nearest integer, halves to the even one, and saturated at 255
RoundHalfEven(r) ==
    LET q == r.n \div r.d
        twice == 2 * (r.n % r.d)
    IN  IF twice < r.d THEN q
        ELSE IF twice > r.d THEN q + 1
        ELSE IF q % 2 = 0 THEN q ELSE q + 1

ConvertScaleAbs(image, alpha, beta) ==
    [image EXCEPT !.px =
        [p \in DOMAIN image.px |->
            LET scaled == RAdd(RMul(Whole(image.px[p]), alpha), beta)
                rounded == RoundHalfEven(Num(Abs(scaled.n), scaled.d))
            IN  IF rounded > 255 THEN 255 ELSE rounded]]

\* the body of Compositor._apply_color_correction: brightness, then contrast; the
\* image as it is when neither is animated, or when an animated value is no
\* number (the exception is caught)
CorrectColors(image, brightness, contrast) ==
    IF \/ brightness # None /\ ~IsNum(brightness)
       \/ contrast # None /\ ~IsNum(contrast)
    THEN image
    ELSE LET brightened == IF brightness # None
                           THEN ConvertScaleAbs(image, Whole(1), brightness)
                           ELSE image
         IN  IF contrast # None
             THEN ConvertScaleAbs(brightened, RMul(contrast, Num(1, 100)), Whole(0))
             ELSE brightened

\* Compositor._apply_color_correction
ApplyColorCorrection(image, clip, frame) ==
    CorrectColors(image,
                  GetValueAtFrame(clip.keyframes, "brightness", frame),
                  GetValueAtFrame(clip.keyframes, "contrast", frame))

-----------------------------------------------------------------------------
(* The effect engine.  An Effect is a record whose field kind names its    *)
(* class: "color_correction" (of which the brightness is modelled, the     *)
(* other parameters at their defaults), "noise", and "effect" for the base *)
(* class.                                                                  *)

\* the longest effect list, and the last state of the random generator
MaxEffects == 3
MaxRandomState == 2

Raised(exception) == [kind |-> "raised", exception |-> exception]

\* Effect.__init__, with the parameters of the subclass
Effect(kind, parameters) ==
    [kind |-> kind, enabled |-> TRUE, parameters |-> parameters,
     blend_mode |-> "normal", opacity |-> 100]

\* np.clip(result, 0, 255).astype(np.uint8), one pixel
Clip255(v) == IF v < 0 THEN 0 ELSE IF v > 255 THEN 255 ELSE v

\* ColorCorrectionEffect.apply: result + brightness / 100.0 * 255, clipped; the
\* brightness is a multiple of 20, which makes the sum a whole number
ColorCorrectionApply(effect, image) ==
    [image EXCEPT !.px =
        [p \in DOMAIN image.px |->
            Clip255(image.px[p] + (effect.parameters.brightness * 255) \div 100)]]

\* np.random.normal / np.random.uniform at one pixel, as the cast to uint8
\* leaves it: what the generator yields depends on its state alone
NoiseAt(seed, p) == (((seed + p[1] + 2 * p[2]) % 3) - 1) * 10

\* NoiseEffect.apply: a type that no branch handles leaves noise unbound
NoiseApply(effect, image, seed) ==
    IF effect.parameters.type \in {"gaussian", "uniform"}
    THEN [image EXCEPT !.px =
            [p \in DOMAIN image.px |-> Clip255(image.px[p] + NoiseAt(seed, p))]]
    ELSE Raised("UnboundLocalError")

\* effect.apply(result, frame=frame), by class
EffectApply(effect, image, seed) ==
    CASE effect.kind = "color_correction" -> ColorCorrectionApply(effect, image)
      [] effect.kind = "noise" -> NoiseApply(effect, image, seed)
      [] OTHER -> image

\* cv2.addWeighted(result, 1 - alpha, processed, alpha, 0) with alpha =
\* opacity / 100.0: rounded to the nearest integer, halves to the even one
AddWeighted(result, processed, opacity) ==
    [result EXCEPT !.px =
        [p \in DOMAIN result.px |->
            Clip255(RoundHalfEven(Num(result.px[p] * (100 - opacity)
                                      + processed.px[p] * opacity, 100)))]]

\* np.float32: the number m * 2^e with 2^23 <= m < 2^24, and zero with m = 0
TwoTo23 == 8388608
TwoTo24 == 16777216

Float32(m, e) == [m |-> m, e |-> e]

\* the quotient q and the remainder r of v * 2^k by 255, at the least k that
\* gives the quotient 24 bits
RECURSIVE ScaledQuotient(_, _, _)
ScaledQuotient(q, r, k) ==
    IF q >= TwoTo23 THEN [q |-> q, r |-> r, k |-> k]
    ELSE ScaledQuotient(2 * q + (2 * r) \div 255, (2 * r) % 255, k + 1)

\* a 24-bit mantissa and what was cut off it (rest of unit), rounded to the
\* nearest float32, halves to the even one
RoundFloat32(m, rest, unit, e) ==
    LET up == 2 * rest > unit \/ (2 * rest = unit /\ m % 2 = 1)
    IN  IF ~up THEN Float32(m, e)
        ELSE IF m + 1 = TwoTo24 THEN Float32(TwoTo23, e + 1)
        ELSE Float32(m + 1, e)

\* overlay.astype(np.float32) / 255.0, one pixel
DivideBy255(v) ==
    IF v = 0 THEN Float32(0, 0)
    ELSE LET scaled == ScaledQuotient(v \div 255, v % 255, 0)
         IN  RoundFloat32(scaled.q, scaled.r, 255, -scaled.k)

\* result * 255 in float32, one pixel: m * 255 = 256 * high + low
TimesTo255(f) ==
    IF f.m = 0 THEN f
    ELSE LET low == (256 - (f.m % 256)) % 256
             high == f.m - (f.m \div 256) - (IF f.m % 256 > 0 THEN 1 ELSE 0)
         IN  IF high >= TwoTo23 THEN RoundFloat32(high, low, 256, f.e + 8)
             ELSE RoundFloat32(2 * high + (low \div 128), low % 128, 128, f.e + 7)

\* np.clip(x, 0, 255).astype(np.uint8), one pixel: the fraction is cut off
ClipAsUint8(f) ==
    IF f.e >= 0 THEN (IF f.m = 0 THEN 0 ELSE 255)
    ELSE IF -f.e > 30 THEN 0
    ELSE Clip255(f.m \div (2 ^ (-f.e)))

\* a uint8 through overlay_f = overlay / 255.0 and back through result * 255
ThroughFloat32 == [v \in 0..255 |-> ClipAsUint8(TimesTo255(DivideBy255(v)))]

\* EffectEngine._apply_blend_mode with BlendMode.NORMAL, the mode of every effect
\* of the model: result = overlay_f
ApplyBlendMode(base, overlay, blend_mode) ==
    [overlay EXCEPT !.px = [p \in DOMAIN overlay.px |-> ThroughFloat32[overlay.px[p]]]]

\* what the loop of apply_effects reports of an effect: the running image after
\* it, and the state of the generator it found
EffectOutcome(result, effect, seed, outcome) ==
    [effect |-> effect, outcome |-> outcome, result |-> result, seed |-> seed]

\* the body of the try of apply_effects, from the processed image on
Processed(result, effect, seed, processed) ==
    IF processed.kind = "raised" THEN EffectOutcome(result, effect, seed, "error")
    ELSE EffectOutcome(
            ApplyBlendMode(result,
                           IF effect.opacity < 100
                           THEN AddWeighted(result, processed, effect.opacity)
                           ELSE processed,
                           effect.blend_mode),
            effect, seed, "applied")

\* the loop body that stops at the first effect that fails
EffectStep_Stopping(result, effect, seed) ==
    IF result.kind = "raised" \/ ~effect.enabled
    THEN EffectOutcome(result, effect, seed, "skipped")
    ELSE IF EffectApply(effect, result, seed).kind = "raised"
         THEN EffectOutcome(Raised("stopped"), effect, seed, "error")
    ELSE Processed(result, effect, seed, EffectApply(effect, result, seed))

\* the loop body that applies an effect whether it is enabled or not
EffectStep_IgnoringEnabled(result, effect, seed) ==
    Processed(result, effect, seed, EffectApply(effect, result, seed))

\* the body of the loop of apply_effects
EffectStep(result, effect, seed) ==
    IF ~effect.enabled THEN EffectOutcome(result, effect, seed, "skipped")
    ELSE Processed(result, effect, seed, EffectApply(effect, result, seed))

\* the loop that goes through the list from its end
RECURSIVE ApplyEffectsFrom_Backwards(_, _, _, _, _)
ApplyEffectsFrom_Backwards(result, effects, i, seed, reported) ==
    IF i > Len(effects) THEN [result |-> result, log |-> reported]
    ELSE ApplyEffectsFrom_Backwards(
            EffectStep(result, effects[Len(effects) + 1 - i], seed + i - 1).result,
            effects, i + 1, seed,
            Append(reported, EffectStep(result, effects[Len(effects) + 1 - i],
                                        seed + i - 1)))

\* the loop of apply_effects, from the i-th effect on; the i-th draw finds the
\* generator i - 1 states on
RECURSIVE ApplyEffectsFrom(_, _, _, _, _)
ApplyEffectsFrom(result, effects, i, seed, reported) ==
    IF i > Len(effects) THEN [result |-> result, log |-> reported]
    ELSE ApplyEffectsFrom(EffectStep(result, effects[i], seed + i - 1).result,
                          effects, i + 1, seed,
                          Append(reported, EffectStep(result, effects[i], seed + i - 1)))

\* EffectEngine.apply_effects
EngineApplyEffects(image, effects, frame, seed) ==
    ApplyEffectsFrom(image, effects, 1, seed, <<>>)

\* the content of the layer, by media kind
LayerContent(clip, relative_frame) ==
    CASE clip.media_type = "image" -> LoadImage(clip.media_path)
      [] clip.media_type = "video" -> LoadVideoFrame(clip.media_path, relative_frame)
      [] clip.media_type = "audio" -> RenderAudioVisualization(clip, relative_frame)
      [] OTHER -> None

\* if hasattr(clip, 'effects') and clip.effects: the effects of the clip
WithEffects(image, clip, relative_frame) ==
    IF clip.effects = <<>> THEN image
    ELSE EngineApplyEffects(image, clip.effects, relative_frame, rng).result

\* if image is None: return None; then the effects and the colour correction
CorrectedContent(image, layer) ==
    IF image = None THEN None
    ELSE ApplyColorCorrection(WithEffects(image, layer.clip, layer.relative_frame),
                              layer.clip, layer.relative_frame)

\* Compositor._render_layer
RenderLayer(layer) ==
    CorrectedContent(LayerContent(layer.clip, layer.relative_frame), layer)

-----------------------------------------------------------------------------
(* The compositor: blending a layer onto the accumulated frame.            *)

Min(a, b) == IF a < b THEN a ELSE b
Max(a, b) == IF a > b THEN a ELSE b

\* Compositor._overlay_image: the picture centred on the frame, moved by the
\* transform's position, kept inside the frame
OverlayImage(base, overlay, transform, opacity) ==
    LET x_centred == (base.width - overlay.width) \div 2 + TruncInt(transform.position_x)
        y_centred == (base.height - overlay.height) \div 2 + TruncInt(transform.position_y)
        x_offset == Max(0, Min(x_centred, base.width - overlay.width))
        y_offset == Max(0, Min(y_centred, base.height - overlay.height))
        end_x == Min(x_offset + overlay.width, base.width)
        end_y == Min(y_offset + overlay.height, base.height)
    IN  IF end_x > x_offset /\ end_y > y_offset
        THEN [base EXCEPT !.px =
                [p \in DOMAIN base.px |->
                    IF /\ y_offset <= p[1] /\ p[1] < end_y
                       /\ x_offset <= p[2] /\ p[2] < end_x
                    THEN LET over == overlay.px[<<p[1] - y_offset, p[2] - x_offset>>]
                         IN  IF opacity = Whole(1) THEN over
                             ELSE BlendPixel(base.px[p], over, opacity)
                    ELSE base.px[p]]]
        ELSE base

\* Compositor._apply_transform of a layer that is not rotated (rotation is 0 for
\* every clip of the model): the scale about the centre, then the move by whole
\* pixels, what moves in being black
ApplyTransform(image, transform) ==
    IF ~IsNum(transform.scale_x) \/ ~IsNum(transform.scale_y) THEN Raised("TypeError")
    ELSE
    LET h == image.height
        w == image.width
        scale_x == RMul(transform.scale_x, Num(1, 100))
        scale_y == RMul(transform.scale_y, Num(1, 100))
        new_w == TruncInt(RMul(Whole(w), scale_x))
        new_h == TruncInt(RMul(Whole(h), scale_y))
        y_offset == (h - new_h) \div 2
        x_offset == (w - new_w) \div 2
        resized == Resize(image, new_h, new_w)
        canvas == IF y_offset >= 0 /\ x_offset >= 0
                  THEN Raster(h, w,
                         [p \in Pixels(h, w) |->
                            IF /\ y_offset <= p[1] /\ p[1] < y_offset + new_h
                               /\ x_offset <= p[2] /\ p[2] < x_offset + new_w
                            THEN resized.px[<<p[1] - y_offset, p[2] - x_offset>>]
                            ELSE 0])
                  ELSE Full(h, w, 0)
        scaled == IF scale_x # Whole(1) \/ scale_y # Whole(1) THEN canvas ELSE image
        dx == TruncInt(transform.position_x)
        dy == TruncInt(transform.position_y)
        moved == Raster(h, w,
                    [p \in Pixels(h, w) |->
                        IF <<p[1] - dy, p[2] - dx>> \in Pixels(h, w)
                        THEN scaled.px[<<p[1] - dy, p[2] - dx>>]
                        ELSE 0])
    IN  IF (scale_x # Whole(1) \/ scale_y # Whole(1)) /\ (new_w <= 0 \/ new_h <= 0)
        THEN Raised("cv2.error")
        ELSE IF transform.position_x # Whole(0) \/ transform.position_y # Whole(0)
             THEN moved
             ELSE scaled

\* Compositor._blend_images
BlendImages(base, overlay, blend_mode, opacity) ==
    LET fitted == IF SameShape(overlay, base) THEN overlay
                  ELSE Resize(overlay, base.height, base.width)
        clamped == RMax(Whole(0), RMin(Whole(1), opacity))
    IN  IF clamped = Whole(0) THEN base
        ELSE IF clamped = Whole(1) THEN fitted
        ELSE [base EXCEPT !.px =
                [p \in DOMAIN base.px |-> BlendPixel(base.px[p], fitted.px[p], clamped)]]

\* Compositor._composite_layer
CompositorCompositeLayer(base, layer, transform, blend_mode, clip) ==
    LET opacity == RMul(transform.opacity, Num(1, 100))
    IN  IF clip.media_type = "image"
        THEN OverlayImage(base, layer, transform, opacity)
        ELSE LET transformed_layer == ApplyTransform(layer, transform)
             IN  IF transformed_layer.kind = "raised" THEN transformed_layer
                 ELSE BlendImages(base,
                                  IF SameShape(transformed_layer, base)
                                  THEN transformed_layer
                                  ELSE Resize(transformed_layer, base.height, base.width),
                                  blend_mode, opacity)

-----------------------------------------------------------------------------
(* The compositor: composite_frame.                                        *)

\* the states of np.random's generator, which is seeded from the system
RandomStates == 0..MaxRandomState

\* the effects of the list that draw from the generator
DrawsNoise(effects) ==
    \E i \in 1..Len(effects) :
        /\ effects[i].enabled
        /\ effects[i].kind = "noise"
        /\ effects[i].parameters.type \in {"gaussian", "uniform"}

\* Compositor.__init__: the frame cache is a dict, kept here in the order of
\* its insertions
Compositor(width, height) ==
    [width |-> width, height |-> height, frame_cache |-> <<>>]

\* clip.start_frame <= frame < clip.start_frame + clip.duration
IsActive(clip, frame) ==
    clip.start_frame <= frame /\ frame < clip.start_frame + clip.duration

\* the clips of the list that are active, in the order of the list
RECURSIVE ActiveClips(_, _)
ActiveClips(clip_list, frame) ==
    IF clip_list = <<>> THEN <<>>
    ELSE IF IsActive(Head(clip_list), frame)
         THEN <<Head(clip_list)>> \o ActiveClips(Tail(clip_list), frame)
         ELSE ActiveClips(Tail(clip_list), frame)

\* one clip put in front of the clips of its own track: a sort that is not stable
RECURSIVE InsertByTrack_InFront(_, _)
InsertByTrack_InFront(sorted, clip) ==
    IF sorted = <<>> THEN <<clip>>
    ELSE IF Head(sorted).track > clip.track
         THEN <<Head(sorted)>> \o InsertByTrack_InFront(Tail(sorted), clip)
         ELSE <<clip>> \o sorted

\* one clip put into a list that is sorted by track, descending, behind the
\* clips of its own track
RECURSIVE InsertByTrack(_, _)
InsertByTrack(sorted, clip) ==
    IF sorted = <<>> THEN <<clip>>
    ELSE IF Head(sorted).track >= clip.track
         THEN <<Head(sorted)>> \o InsertByTrack(Tail(sorted), clip)
         ELSE <<clip>> \o sorted

\* the sort without reverse=True: ascending by track
RECURSIVE SortByTrack_Ascending(_)
SortByTrack_Ascending(active_clips) ==
    IF active_clips = <<>> THEN <<>>
    ELSE LET low == CHOOSE i \in 1..Len(active_clips) :
                        \A j \in 1..Len(active_clips) :
                            \/ active_clips[i].track < active_clips[j].track
                            \/ active_clips[i].track = active_clips[j].track /\ i <= j
         IN  <<active_clips[low]>> \o
             SortByTrack_Ascending([k \in 1..(Len(active_clips) - 1) |->
                                      IF k < low THEN active_clips[k]
                                      ELSE active_clips[k + 1]])

\* active_clips.sort(key=lambda c: c.track, reverse=True): a stable sort
RECURSIVE SortByTrack(_)
SortByTrack(active_clips) ==
    IF active_clips = <<>> THEN <<>>
    ELSE InsertByTrack(SortByTrack(SubSeq(active_clips, 1, Len(active_clips) - 1)),
                       active_clips[Len(active_clips)])

\* what the loop reports of a clip (with the transform of its layer, when the
\* layer was built), and the frame after it
Outcome(result, layer, outcome) ==
    [result |-> result, outcome |-> outcome,
     transform |-> IF layer.raised # "" THEN None ELSE layer.transform]

\* result = self._composite_layer(...), or the exception it raised
CompositeOutcome(result, layer, composited) ==
    IF composited.kind = "raised" THEN Outcome(result, layer, "error")
    ELSE Outcome(composited, layer, "composited")

\* if layer_image is not None: ... else: ...
Rendered(result, layer, layer_image) ==
    IF layer_image = None THEN Outcome(result, layer, "load failed")
    ELSE CompositeOutcome(result, layer,
                          CompositorCompositeLayer(result, layer_image, layer.transform,
                                                   layer.blend_mode, layer.clip))

\* the body of the loop when a layer that fails takes the frame down with it
Layered_Blanking(result, layer) ==
    IF layer.raised # "" THEN Outcome(Full(result.height, result.width, 0), layer, "error")
    ELSE IF ~(layer.visible /\ layer.relative_frame >= 0)
         THEN Outcome(result, layer, "hidden")
    ELSE Rendered(result, layer, RenderLayer(layer))

\* the body of the loop over the active clips, from the layer on
Layered(result, layer) ==
    IF layer.raised # "" THEN Outcome(result, layer, "error")
    ELSE IF ~(layer.visible /\ layer.relative_frame >= 0)
         THEN Outcome(result, layer, "hidden")
    ELSE Rendered(result, layer, RenderLayer(layer))

\* the body of the loop over the active clips
CompositeClip(result, clip, frame) == Layered(result, CompositeLayer(clip, frame))

\* the line of the log about a clip
LogEntry(clip, done) ==
    [clip |-> clip, outcome |-> done.outcome, transform |-> done.transform]

\* the loop over the sorted active clips; done is what the body of the loop made
\* of the first of them
RECURSIVE CompositeLayers(_, _, _, _)
RECURSIVE CompositeRest(_, _, _, _)
CompositeRest(active_clips, frame, done, reported) ==
    CompositeLayers(Tail(active_clips), frame, done.result,
                    Append(reported, LogEntry(Head(active_clips), done)))

CompositeLayers(active_clips, frame, result, reported) ==
    IF active_clips = <<>> THEN [result |-> result, log |-> reported]
    ELSE CompositeRest(active_clips, frame,
                       CompositeClip(result, Head(active_clips), frame), reported)

\* Compositor.composite_frame
CompositorCompositeFrame(clip_list, frame, background_color) ==
    LET result == Full(Height, Width, background_color)
        active_clips == ActiveClips(clip_list, frame)
    IN  IF active_clips = <<>> THEN [result |-> result, log |-> <<>>]
        ELSE CompositeLayers(SortByTrack(active_clips), frame, result, <<>>)

-----------------------------------------------------------------------------
(* Inputs of the compositor.                                               *)

\* where the clips sit on the timeline
ClipWindows ==
    { [track |-> 0, start_frame |-> 0, duration |-> 2],
      [track |-> 1, start_frame |-> 1, duration |-> 3] }

BackgroundColors == {0, 255}
CompositeFrames == 0..MaxCompositeFrame

\* a clip of every media path in every window, with the transform of __init__
PlainClips ==
    { [TimelineClip(path, w.start_frame, w.track) EXCEPT !.duration = w.duration] :
        path \in MediaPaths, w \in ClipWindows }

\* the movie, moved by one pixel and half transparent, its position animated
\* from 0 to 2 over its first two frames
AnimatedClip ==
    [TimelineClip(Movie, 1, 0) EXCEPT
        !.duration = 3, !.position_x = Whole(1), !.opacity = Whole(50),
        !.keyframes = ManagerAddKeyframe(
                          ManagerAddKeyframe(<<>>, "position_x", 0, Whole(0), "LINEAR"),
                          "position_x", 2, Whole(2), "LINEAR")]

\* the picture at an opacity below the guard of CompositeLayer
DimClip ==
    [TimelineClip(Picture, 0, 2) EXCEPT !.duration = 4, !.opacity = Whole(30)]

\* the song, its position animated with values that are no numbers
MixedClip ==
    [TimelineClip(Song, 0, 2) EXCEPT
        !.duration = 2, !.keyframes = ManagerFromDict(PersistedInputs.mixed)]

\* the movie, its opacity animated from 40 to 80 over its first two frames
FadingClip ==
    [TimelineClip(Movie, 0, 1) EXCEPT
        !.duration = 3,
        !.keyframes = ManagerAddKeyframe(
                          ManagerAddKeyframe(<<>>, "opacity", 0, Whole(40), "LINEAR"),
                          "opacity", 2, Whole(80), "LINEAR")]

ClipInputs == PlainClips \cup {AnimatedClip, DimClip, MixedClip, FadingClip}

\* the lists of at most n different clips
RECURSIVE ClipLists(_)
ClipLists(n) ==
    IF n = 0 THEN {<<>>}
    ELSE LET shorter == ClipLists(n - 1)
             longest == {clip_list \in shorter : Len(clip_list) = n - 1}
         IN  shorter \cup
             {Append(pair[1], pair[2]) :
                pair \in {p \in longest \X ClipInputs :
                            \A i \in 1..Len(p[1]) : p[1][i] # p[2]}}

CompositorInit ==
    /\ clips \in ClipLists(MaxClips)
    /\ tracks = <<>>
    /\ call = Call("__init__", "", -1, "")
    /\ ret = None
    /\ raised = ""
    /\ log = <<>>
    /\ effect_list = <<>>
    /\ rng = 0
    /\ compositor = Compositor(Width, Height)
    /\ command_manager = None

\* result = compositor.composite_frame(clips, frame, background_color)
CompositeFrame(frame, background_color) ==
    LET out == CompositorCompositeFrame(clips, frame, background_color)
    IN  /\ ret' = out.result
        /\ log' = out.log
        /\ call' = Call("composite_frame", "", frame, background_color)
        /\ raised' = ""
        /\ rng' \in IF \E i \in 1..Len(log') :
                            /\ log'[i].outcome = "composited"
                            /\ DrawsNoise(log'[i].clip.effects)
                     THEN RandomStates ELSE {rng}
        /\ UNCHANGED <<tracks, clips, effect_list, compositor, command_manager>>

CompositorNext ==
    \E frame \in CompositeFrames, background_color \in BackgroundColors :
        CompositeFrame(frame, background_color)

SpecCompositor == CompositorInit /\ [][CompositorNext]_vars

-----------------------------------------------------------------------------
(* The scenario of test_compositor: three clips, composited at frames      *)
(* across their windows.                                                   *)

\* the frames 0, 15, ..., 15 * MaxScenarioStep are composited
MaxScenarioStep == 8
ScenarioFrames == {15 * i : i \in 0..MaxScenarioStep}

\* TimelineClip.animate_position, of a clip's keyframes
AnimatePosition(keyframes, start_frame, end_frame, start_pos, end_pos) ==
    ManagerAddKeyframe(
        ManagerAddKeyframe(
            ManagerAddKeyframe(
                ManagerAddKeyframe(keyframes, "position_x", start_frame, start_pos[1],
                                   "LINEAR"),
                "position_x", end_frame, end_pos[1], "LINEAR"),
            "position_y", start_frame, start_pos[2], "LINEAR"),
        "position_y", end_frame, end_pos[2], "LINEAR")

\* TimelineClip.animate_opacity, of a clip's keyframes
AnimateOpacity(keyframes, start_frame, end_frame, start_opacity, end_opacity) ==
    ManagerAddKeyframe(
        ManagerAddKeyframe(keyframes, "opacity", start_frame, start_opacity, "LINEAR"),
        "opacity", end_frame, end_opacity, "LINEAR")

\* clip1: the picture on track 0 from frame 0
BackgroundClip == [TimelineClip(Picture, 0, 0) EXCEPT !.duration = 120]

\* clip2: the movie on track 1 spanning the frames [30, 90), its position
\* animated from (0, 0) to (50, 25) over its first 30 frames
OverlayClip ==
    [TimelineClip(Movie, 30, 1) EXCEPT
        !.duration = 60,
        !.keyframes = AnimatePosition(<<>>, 0, 30, <<Whole(0), Whole(0)>>,
                                      <<Whole(50), Whole(25)>>)]

\* clip3: a picture that is not on disk, on track 2, fading in and out
TitleClip ==
    [TimelineClip(MissingPicture, 60, 2) EXCEPT
        !.duration = 40,
        !.keyframes = AnimateOpacity(AnimateOpacity(<<>>, 0, 10, Whole(0), Whole(1)),
                                     30, 40, Whole(1), Whole(0))]

ScenarioClips == {BackgroundClip, OverlayClip, TitleClip}

ScenarioInit ==
    /\ clips \in UNION {{l \in [1..n -> ScenarioClips] :
                            \A i, j \in 1..n : i < j => l[i] # l[j]} : n \in 0..3}
    /\ tracks = <<>>
    /\ call = Call("__init__", "", -1, "")
    /\ ret = None
    /\ raised = ""
    /\ log = <<>>
    /\ effect_list = <<>>
    /\ rng = 0
    /\ compositor = Compositor(Width, Height)
    /\ command_manager = None

ScenarioNext ==
    \E frame \in ScenarioFrames, background_color \in BackgroundColors :
        CompositeFrame(frame, background_color)

SpecScenario == ScenarioInit /\ [][ScenarioNext]_vars

-----------------------------------------------------------------------------
(* The effect engine at work: apply_effects on a list of effects, and      *)
(* composite_frame on clips that carry effects.                            *)

Brighten == Effect("color_correction", [brightness |-> 20])
Darken == [Effect("color_correction", [brightness |-> -20]) EXCEPT !.opacity = 50]
Grain == Effect("noise", [amount |-> 10, type |-> "gaussian"])
\* effect.set_parameter('type', 'film'): a type NoiseEffect.apply does not know
BrokenGrain == Effect("noise", [amount |-> 10, type |-> "film"])
\* effect.enabled = False
Disabled(effect) == [effect EXCEPT !.enabled = FALSE]

EffectInputs == {Brighten, Darken, Grain, BrokenGrain, Disabled(Brighten), Disabled(Grain)}

\* the images handed to apply_effects: one of the frame's size, and a bright
\* one that the brightness saturates
ImageInputs == {Full(Height, Width, 100), Full(1, 2, 240)}

EffectsInit ==
    /\ effect_list \in UNION {[1..n -> EffectInputs] : n \in 0..MaxEffects}
    /\ rng \in RandomStates
    /\ tracks = <<>>
    /\ clips = <<>>
    /\ call = Call("__init__", "", -1, "")
    /\ ret = None
    /\ raised = ""
    /\ log = <<>>
    /\ compositor = None
    /\ command_manager = None

\* result = effect_engine.apply_effects(image, effects)
ApplyEffects(image) ==
    LET out == EngineApplyEffects(image, effect_list, 0, rng)
    IN  /\ ret' = out.result
        /\ log' = out.log
        /\ call' = Call("apply_effects", "", 0, image)
        /\ raised' = ""
        /\ rng' \in IF DrawsNoise(effect_list) THEN RandomStates ELSE {rng}
        /\ UNCHANGED <<tracks, clips, effect_list, compositor, command_manager>>

EffectsNext == \E image \in ImageInputs : ApplyEffects(image)

SpecEffects == EffectsInit /\ [][EffectsNext]_vars

\* clips that carry effects
GrainyClip ==
    [TimelineClip(Movie, 0, 0) EXCEPT !.duration = 2, !.effects = <<Grain>>]
BrightClip ==
    [TimelineClip(Picture, 1, 1) EXCEPT
        !.duration = 3, !.effects = <<Brighten, Disabled(Grain)>>]
BrokenClip ==
    [TimelineClip(Song, 0, 2) EXCEPT !.duration = 4, !.effects = <<BrokenGrain, Darken>>]

EffectClipsInit ==
    /\ clips \in UNION {[1..n -> {GrainyClip, BrightClip, BrokenClip}] : n \in 0..MaxClips}
    /\ rng \in RandomStates
    /\ tracks = <<>>
    /\ call = Call("__init__", "", -1, "")
    /\ ret = None
    /\ raised = ""
    /\ log = <<>>
    /\ effect_list = <<>>
    /\ compositor = Compositor(Width, Height)
    /\ command_manager = None

SpecEffectClips == EffectClipsInit /\ [][CompositorNext]_vars

-----------------------------------------------------------------------------
(* composite_frame on one clip that is moved or scaled: the picture at     *)
(* positions inside and beyond the frame, the movie at scales below and    *)
(* above 100.                                                              *)

\* clip.position_x and clip.position_y of the pictures: whole pixels and halves
PicturePositionsX == {Whole(x) : x \in -2..2} \cup {Num(3, 2), Num(-1, 2)}
PicturePositionsY == {Whole(y) : y \in -1..1}

\* the scales the movies are keyed with, in percent
MovieScales == {Whole(50), Whole(100), Whole(150), Whole(200)}

PlacedPictures ==
    { [TimelineClip(Picture, 0, 0) EXCEPT
          !.duration = MaxCompositeFrame + 1, !.position_x = x, !.position_y = y] :
        x \in PicturePositionsX, y \in PicturePositionsY }

\* clip.keyframes.add_keyframe('scale_x', 0, sx); add_keyframe('scale_y', 0, sy)
ScaledMovies ==
    { [TimelineClip(Movie, 0, 0) EXCEPT
          !.duration = MaxCompositeFrame + 1,
          !.keyframes = ManagerAddKeyframe(
                            ManagerAddKeyframe(<<>>, "scale_x", 0, sx, "LINEAR"),
                            "scale_y", 0, sy, "LINEAR")] :
        sx \in MovieScales, sy \in MovieScales }

TransformedInit ==
    /\ clips \in {<<clip>> : clip \in PlacedPictures \cup ScaledMovies}
    /\ tracks = <<>>
    /\ call = Call("__init__", "", -1, "")
    /\ ret = None
    /\ raised = ""
    /\ log = <<>>
    /\ effect_list = <<>>
    /\ rng = 0
    /\ compositor = Compositor(Width, Height)
    /\ command_manager = None

SpecTransformed == TransformedInit /\ [][CompositorNext]_vars

-----------------------------------------------------------------------------
(* The frame cache of the compositor.  An entry of the cache carries, next *)
(* to its key and its frame, the resolution the Compositor had when the    *)
(* entry was put: a history field, which the code does not keep.           *)

\* Compositor.max_cache_size of the model (50 in the code)
MaxCacheSize == 2

\* keys as _get_cache_key makes them, of frames without active clips
CacheKeys == {"frame_0:", "frame_1:", "frame_2:"}

\* the widths and heights set_resolution is called with
Resolutions == {Width - 1, Width} \X {Height - 1, Height}

CacheEntry(c, cache_key, frame) ==
    [key |-> cache_key, frame |-> frame, resolution |-> <<c.width, c.height>>]

\* self.frame_cache[cache_key] = frame.copy(): a key the dict holds keeps its
\* place, a new key goes last
PutFrame(frame_cache, entry) ==
    IF \E i \in 1..Len(frame_cache) : frame_cache[i].key = entry.key
    THEN [i \in 1..Len(frame_cache) |->
            IF frame_cache[i].key = entry.key THEN entry ELSE frame_cache[i]]
    ELSE Append(frame_cache, entry)

\* _cache_frame that makes room by dropping the entry put last
CompositorCacheFrame_DroppingNewest(c, cache_key, frame) ==
    [c EXCEPT !.frame_cache =
        PutFrame(IF Len(@) >= MaxCacheSize THEN SubSeq(@, 1, Len(@) - 1) ELSE @,
                 CacheEntry(c, cache_key, frame))]

\* Compositor._cache_frame: a full cache first loses its oldest entry
CompositorCacheFrame(c, cache_key, frame) ==
    [c EXCEPT !.frame_cache =
        PutFrame(IF Len(@) >= MaxCacheSize THEN Tail(@) ELSE @,
                 CacheEntry(c, cache_key, frame))]

\* Compositor.clear_cache
CompositorClearCache(c) == [c EXCEPT !.frame_cache = <<>>]

\* set_resolution that keeps the cache
CompositorSetResolution_KeepingCache(c, width, height) ==
    [c EXCEPT !.width = width, !.height = height]

\* Compositor.set_resolution
CompositorSetResolution(c, width, height) ==
    IF c.width # width \/ c.height # height
    THEN CompositorClearCache([c EXCEPT !.width = width, !.height = height])
    ELSE c

CacheInit ==
    /\ compositor = Compositor(Width, Height)
    /\ command_manager = None
    /\ tracks = <<>>
    /\ clips = <<>>
    /\ call = Call("__init__", "", -1, "")
    /\ ret = None
    /\ raised = ""
    /\ log = <<>>
    /\ effect_list = <<>>
    /\ rng = 0

\* the entries of the cache whose keys the cache does not hold after a call
Evicted(before, after) ==
    SelectSeq(before, LAMBDA entry : \A i \in 1..Len(after) : after[i].key # entry.key)

\* compositor._cache_frame(cache_key, frame), of a frame of the resolution set;
\* the log keeps what the call evicted
CacheFrame(cache_key, colour) ==
    /\ compositor' = CompositorCacheFrame(compositor, cache_key,
                                          Full(compositor.height, compositor.width, colour))
    /\ log' = Evicted(compositor.frame_cache, compositor'.frame_cache)
    /\ call' = Call("_cache_frame", cache_key, -1, colour)
    /\ ret' = None
    /\ raised' = ""
    /\ UNCHANGED <<tracks, clips, effect_list, rng, command_manager>>

\* compositor.clear_cache()
ClearCache ==
    /\ compositor' = CompositorClearCache(compositor)
    /\ call' = Call("clear_cache", "", -1, "")
    /\ ret' = None
    /\ raised' = ""
    /\ UNCHANGED <<tracks, clips, log, effect_list, rng, command_manager>>

\* compositor.set_resolution(width, height)
SetResolution(width, height) ==
    /\ compositor' = CompositorSetResolution(compositor, width, height)
    /\ call' = Call("set_resolution", "", -1, <<width, height>>)
    /\ ret' = None
    /\ raised' = ""
    /\ UNCHANGED <<tracks, clips, log, effect_list, rng, command_manager>>

CacheNext ==
    \/ \E cache_key \in CacheKeys, colour \in BackgroundColors :
            CacheFrame(cache_key, colour)
    \/ ClearCache
    \/ \E resolution \in Resolutions : SetResolution(resolution[1], resolution[2])

SpecCache == CacheInit /\ [][CacheNext]_vars

-----------------------------------------------------------------------------
(* Editing the clips of the timeline.  An Effect object is its record with *)
(* a field id, the identity of the object: two clips share an effect when  *)
(* their lists hold records of one id.                                     *)

\* the most clips on the timeline, the most effects on a clip, and the longest
\* duration a clip is resized to
MaxTimelineClips == 2
MaxClipEffects == 1
MaxDuration == 3
\* CommandManager.max_history, 50 in the source
MaxHistory == 3

\* the object of identity id
Object(id, effect) == [id |-> id] @@ effect

\* the identities in use on the timeline, and the identity of a new object
EffectIds(clip_list) ==
    UNION {{clip_list[i].effects[a].id : a \in 1..Len(clip_list[i].effects)} :
              i \in 1..Len(clip_list)}

NewId(clip_list) ==
    CHOOSE id \in 0..Cardinality(EffectIds(clip_list)) :
        /\ id \notin EffectIds(clip_list)
        /\ \A smaller \in 0..(id - 1) : smaller \in EffectIds(clip_list)

\* TimelineClip.duplicate: a new clip with the attributes of this one and a
\* copy of its effects list; the keyframes are those of __init__
ClipDuplicate(clip) ==
    [TimelineClip(clip.media_path, clip.start_frame, clip.track) EXCEPT
        !.duration = clip.duration,
        !.position_x = clip.position_x, !.position_y = clip.position_y,
        !.scale_x = clip.scale_x, !.scale_y = clip.scale_y,
        !.rotation = clip.rotation, !.opacity = clip.opacity,
        !.fade_in = clip.fade_in, !.fade_out = clip.fade_out,
        !.effects = clip.effects]

\* TimelineClip.resize
ClipResize(clip, new_duration) ==
    LET duration == IF new_duration > 1 THEN new_duration ELSE 1
        max_fade == duration \div 2
    IN  [clip EXCEPT !.duration = duration,
                     !.fade_in = IF @ < max_fade THEN @ ELSE max_fade,
                     !.fade_out = IF @ < max_fade THEN @ ELSE max_fade]

\* TimelineClip.split_at_frame: the clip as it is left, and the clip returned
\* (None when the frame is not inside the clip)
ClipSplitAtFrame(clip, frame) ==
    IF clip.start_frame < frame /\ frame < clip.start_frame + clip.duration
    THEN LET first_duration == frame - clip.start_frame
             first == [clip EXCEPT !.duration = first_duration]
         IN  [self |-> first,
              second_clip |-> [ClipDuplicate(clip) EXCEPT
                                  !.start_frame = frame,
                                  !.duration = first.duration - first_duration]]
    ELSE [self |-> clip, second_clip |-> None]

\* TimelineClip.remove_effect: list.remove takes out the first occurrence
ClipRemoveEffect(clip, effect) ==
    IF \E a \in 1..Len(clip.effects) : clip.effects[a].id = effect.id
    THEN LET first == CHOOSE a \in 1..Len(clip.effects) :
                         /\ clip.effects[a].id = effect.id
                         /\ \A b \in 1..(a - 1) : clip.effects[b].id # effect.id
         IN  [clip EXCEPT !.effects =
                 [b \in 1..(Len(@) - 1) |-> IF b < first THEN @[b] ELSE @[b + 1]]]
    ELSE clip

ClipsInit ==
    /\ clips \in {<<[TimelineClip(Movie, 0, 0) EXCEPT !.duration = duration]>> :
                     duration \in 1..MaxDuration}
    /\ tracks = <<>>
    /\ call = Call("__init__", "", -1, "")
    /\ ret = None
    /\ raised = ""
    /\ log = <<>>
    /\ effect_list = <<>>
    /\ rng = 0
    /\ compositor = None
    /\ command_manager = None

\* clips[i].add_effect(effect) of an effect the caller has just made
AddEffect(i) ==
    /\ Len(clips[i].effects) < MaxClipEffects
    /\ clips' = [clips EXCEPT ![i].effects =
                    Append(@, Object(NewId(clips), Brighten))]
    /\ call' = Call("add_effect", "", -1, i)
    /\ ret' = None
    /\ UNCHANGED <<tracks, raised, log, effect_list, rng, compositor, command_manager>>

\* clips[i].remove_effect(clips[j].effects[a])
RemoveEffect(i, j, a) ==
    /\ a \in 1..Len(clips[j].effects)
    /\ clips' = [clips EXCEPT ![i] = ClipRemoveEffect(@, clips[j].effects[a])]
    /\ call' = Call("remove_effect", "", -1, i)
    /\ ret' = None
    /\ UNCHANGED <<tracks, raised, log, effect_list, rng, compositor, command_manager>>

\* clips.append(clips[i].duplicate())
Duplicate(i) ==
    /\ Len(clips) < MaxTimelineClips
    /\ clips' = Append(clips, ClipDuplicate(clips[i]))
    /\ call' = Call("duplicate", "", -1, i)
    /\ ret' = ClipDuplicate(clips[i])
    /\ UNCHANGED <<tracks, raised, log, effect_list, rng, compositor, command_manager>>

\* clips[i].resize(new_duration)
ResizeClip(i, new_duration) ==
    /\ clips' = [clips EXCEPT ![i] = ClipResize(@, new_duration)]
    /\ call' = Call("resize", "", new_duration, i)
    /\ ret' = None
    /\ UNCHANGED <<tracks, raised, log, effect_list, rng, compositor, command_manager>>

\* second = clips[i].split_at_frame(frame); the timeline takes the clip returned
SplitAtFrame(i, frame) ==
    /\ Len(clips) < MaxTimelineClips
    /\ LET split == ClipSplitAtFrame(clips[i], frame)
       IN  /\ clips' = IF split.second_clip = None THEN clips
                       ELSE Append([clips EXCEPT ![i] = split.self], split.second_clip)
           /\ ret' = split.second_clip
    /\ call' = Call("split_at_frame", "", frame, i)
    /\ UNCHANGED <<tracks, raised, log, effect_list, rng, compositor, command_manager>>

ClipsNext ==
    \/ \E i \in 1..Len(clips) : AddEffect(i)
    \/ \E i, j \in 1..Len(clips), a \in 1..MaxClipEffects : RemoveEffect(i, j, a)
    \/ \E i \in 1..Len(clips) : Duplicate(i)
    \/ \E i \in 1..Len(clips), new_duration \in -1..MaxDuration :
            ResizeClip(i, new_duration)
    \/ \E i \in 1..Len(clips), frame \in 0..MaxDuration : SplitAtFrame(i, frame)

SpecClips == ClipsInit /\ [][ClipsNext]_vars

-----------------------------------------------------------------------------
(* The command manager of the timeline: undo and redo of the moves of a    *)
(* clip.  A MoveClipCommand names its clip by the clip's place in the      *)
(* timeline's list.  The log keeps the current_index and the length of the *)
(* history the call found.                                                 *)

\* True and False
Boolean(b) == [kind |-> "bool", value |-> b]

\* CommandManager.__init__
CommandManager(max_history) ==
    [max_history |-> max_history, command_history |-> <<>>, current_index |-> -1]

\* MoveClipCommand.__init__
MoveClipCommand(clip, old_start_frame, old_track, new_start_frame, new_track) ==
    [clip |-> clip, old_start_frame |-> old_start_frame, old_track |-> old_track,
     new_start_frame |-> new_start_frame, new_track |-> new_track]

\* MoveClipCommand.execute
CommandExecute(clip_list, command) ==
    [clip_list EXCEPT ![command.clip].start_frame = command.new_start_frame,
                      ![command.clip].track = command.new_track]

\* MoveClipCommand.undo
CommandUndo(clip_list, command) ==
    [clip_list EXCEPT ![command.clip].start_frame = command.old_start_frame,
                      ![command.clip].track = command.old_track]

\* CommandManager.can_undo and CommandManager.can_redo
CanUndo(cm) == cm.current_index >= 0
CanRedo(cm) == cm.current_index < Len(cm.command_history) - 1

\* self.command_history[i], which counts from 0
CommandAt(cm, i) == cm.command_history[i + 1]

\* execute_command that keeps the commands behind current_index
CommandManagerExecuteCommand_KeepingRedo(cm, command) ==
    LET appended == Append(cm.command_history, command)
    IN  IF Len(appended) > cm.max_history
        THEN [cm EXCEPT !.command_history = Tail(appended)]
        ELSE [cm EXCEPT !.command_history = appended,
                        !.current_index = cm.current_index + 1]

\* CommandManager.execute_command, the manager after it
CommandManagerExecuteCommand(cm, command) ==
    LET appended == Append(IF CanRedo(cm)
                           THEN SubSeq(cm.command_history, 1, cm.current_index + 1)
                           ELSE cm.command_history,
                           command)
    IN  IF Len(appended) > cm.max_history
        THEN [cm EXCEPT !.command_history = Tail(appended)]
        ELSE [cm EXCEPT !.command_history = appended,
                        !.current_index = cm.current_index + 1]

\* where a clip is dragged to: a start frame and a track
MoveTargets == {0, 5} \X {0, 1}

\* the current_index and the len(command_history) a call found
Found(cm) ==
    << [current_index |-> cm.current_index, length |-> Len(cm.command_history)] >>

CommandsInit ==
    /\ command_manager = CommandManager(MaxHistory)
    /\ clips = << TimelineClip(Movie, 0, 0) >>
    /\ tracks = <<>>
    /\ call = Call("__init__", "", -1, "")
    /\ ret = None
    /\ raised = ""
    /\ log = <<>>
    /\ effect_list = <<>>
    /\ rng = 0
    /\ compositor = None

\* the end of a drag that moved the clip: command_manager.execute_command(
\* MoveClipCommand(clip, original start frame, original track, start frame, track))
ExecuteCommand(i, new_start_frame, new_track) ==
    LET command == MoveClipCommand(i, clips[i].start_frame, clips[i].track,
                                   new_start_frame, new_track)
    IN  /\ clips[i].start_frame # new_start_frame \/ clips[i].track # new_track
        /\ clips' = CommandExecute(clips, command)
        /\ command_manager' = CommandManagerExecuteCommand(command_manager, command)
        /\ log' = Found(command_manager)
        /\ call' = Call("execute_command", "", -1, command)
        /\ ret' = None
        /\ UNCHANGED <<tracks, raised, effect_list, rng, compositor>>

\* command_manager.undo()
Undo ==
    /\ IF CanUndo(command_manager)
       THEN /\ clips' = CommandUndo(clips, CommandAt(command_manager,
                                                    command_manager.current_index))
            /\ command_manager' = [command_manager EXCEPT !.current_index = @ - 1]
            /\ ret' = Boolean(TRUE)
       ELSE /\ UNCHANGED <<clips, command_manager>>
            /\ ret' = Boolean(FALSE)
    /\ log' = Found(command_manager)
    /\ call' = Call("undo", "", -1, "")
    /\ UNCHANGED <<tracks, raised, effect_list, rng, compositor>>

\* command_manager.redo()
Redo ==
    /\ IF CanRedo(command_manager)
       THEN /\ clips' = CommandExecute(clips, CommandAt(command_manager,
                                                       command_manager.current_index + 1))
            /\ command_manager' = [command_manager EXCEPT !.current_index = @ + 1]
            /\ ret' = Boolean(TRUE)
       ELSE /\ UNCHANGED <<clips, command_manager>>
            /\ ret' = Boolean(FALSE)
    /\ log' = Found(command_manager)
    /\ call' = Call("redo", "", -1, "")
    /\ UNCHANGED <<tracks, raised, effect_list, rng, compositor>>

\* command_manager.clear_history()
ClearHistory ==
    /\ command_manager' = [command_manager EXCEPT !.command_history = <<>>,
                                                  !.current_index = -1]
    /\ log' = Found(command_manager)
    /\ call' = Call("clear_history", "", -1, "")
    /\ ret' = None
    /\ UNCHANGED <<tracks, clips, raised, effect_list, rng, compositor>>

CommandsNext ==
    \/ \E target \in MoveTargets : ExecuteCommand(1, target[1], target[2])
    \/ Undo
    \/ Redo
    \/ ClearHistory

SpecCommands == CommandsInit /\ [][CommandsNext]_vars

-----------------------------------------------------------------------------
(* Properties of the animation engine.                                     *)

Evaluated == call.op = "get_value_at_frame"
\* the track the last evaluate call read, when it has one that is enabled
EvaluatedTrack == tracks[call.property_name]
EvaluatedLive ==
    /\ Evaluated
    /\ call.property_name \in DOMAIN tracks
    /\ EvaluatedTrack.enabled

\* indices i such that keyframes i and i+1 bracket the frame strictly
Brackets(keyframes, frame) ==
    {i \in 1..(Len(keyframes) - 1) :
        keyframes[i].frame < frame /\ frame < keyframes[i + 1].frame}

\* C1: in every track of the AnimationSet the keyframe list is strictly
\* ascending by frame, hence holds at most one keyframe per frame number.
C1_SortedUniqueFrames ==
    \A prop \in DOMAIN tracks :
        \A i \in 1..(Len(tracks[prop].keyframes) - 1) :
            tracks[prop].keyframes[i].frame < tracks[prop].keyframes[i + 1].frame

\* an add_keyframe call put its keyframe in front of two older ones
C1_Witness ==
    /\ call.op = "add_keyframe"
    /\ Len(tracks[call.property_name].keyframes) = 3
    /\ tracks[call.property_name].keyframes[1].frame = call.frame

\* C2: when the evaluated, enabled track has a keyframe at the evaluated frame,
\* evaluate returns exactly that keyframe's value.
C2_ExactHit ==
    EvaluatedLive =>
        \A i \in 1..Len(EvaluatedTrack.keyframes) :
            EvaluatedTrack.keyframes[i].frame = call.frame
                => ret = EvaluatedTrack.keyframes[i].value

\* the middle one of three keyframes is hit; its neighbours ease and hold a
\* different value
C2_Witness ==
    /\ EvaluatedLive
    /\ Len(EvaluatedTrack.keyframes) = 3
    /\ EvaluatedTrack.keyframes[2].frame = call.frame
    /\ EvaluatedTrack.keyframes[1].interpolation = "EASE_IN"
    /\ EvaluatedTrack.keyframes[3].interpolation = "HOLD"
    /\ EvaluatedTrack.keyframes[1].value # EvaluatedTrack.keyframes[2].value
    /\ EvaluatedTrack.keyframes[3].value # EvaluatedTrack.keyframes[2].value
    /\ ret = EvaluatedTrack.keyframes[2].value

\* C3: on an enabled non-empty track evaluate returns the first keyframe's value
\* at every frame before the first keyframe and the last keyframe's value at
\* every frame after the last keyframe.
C3_Clamp ==
    (EvaluatedLive /\ EvaluatedTrack.keyframes # <<>>) =>
        LET kfs == EvaluatedTrack.keyframes
        IN  /\ call.frame < kfs[1].frame => ret = kfs[1].value
            /\ call.frame > kfs[Len(kfs)].frame => ret = kfs[Len(kfs)].value

\* a frame after the last of several keyframes, whose value differs from the first
C3_Witness ==
    /\ EvaluatedLive
    /\ Len(EvaluatedTrack.keyframes) >= 2
    /\ call.frame > EvaluatedTrack.keyframes[Len(EvaluatedTrack.keyframes)].frame
    /\ EvaluatedTrack.keyframes[1].value
         # EvaluatedTrack.keyframes[Len(EvaluatedTrack.keyframes)].value
    /\ ret = EvaluatedTrack.keyframes[Len(EvaluatedTrack.keyframes)].value

\* a frame before the first of several keyframes
C3_WitnessBefore ==
    /\ EvaluatedLive
    /\ Len(EvaluatedTrack.keyframes) >= 2
    /\ call.frame < EvaluatedTrack.keyframes[1].frame
    /\ ret = EvaluatedTrack.keyframes[1].value

\* C4: evaluate returns none exactly when the property has no track, its track
\* is disabled, or its track has no keyframes.
C4_NoneExactly ==
    Evaluated =>
        (ret = None <=>
            \/ call.property_name \notin DOMAIN tracks
            \/ ~EvaluatedTrack.enabled
            \/ EvaluatedTrack.keyframes = <<>>)

\* an enabled track that remove_keyframe has emptied evaluates to none
C4_Witness ==
    /\ EvaluatedLive
    /\ EvaluatedTrack.keyframes = <<>>
    /\ ret = None

\* a disabled track with keyframes evaluates to none
C4_WitnessDisabled ==
    /\ Evaluated
    /\ call.property_name \in DOMAIN tracks
    /\ ~EvaluatedTrack.enabled
    /\ EvaluatedTrack.keyframes # <<>>
    /\ ret = None

\* C5: strictly between a bracketing pair whose prev keyframe is HOLD, evaluate
\* returns prev.value unchanged.
C5_Hold ==
    EvaluatedLive =>
        \A i \in Brackets(EvaluatedTrack.keyframes, call.frame) :
            EvaluatedTrack.keyframes[i].interpolation = "HOLD"
                => ret = EvaluatedTrack.keyframes[i].value

\* keyframes (0, 5, HOLD), (10, 99, LINEAR): evaluate(5) = 5
C5_Witness ==
    /\ EvaluatedLive
    /\ call.frame = 5
    /\ Len(EvaluatedTrack.keyframes) = 2
    /\ EvaluatedTrack.keyframes[1] = Keyframe(0, Whole(5), "HOLD")
    /\ EvaluatedTrack.keyframes[2] = Keyframe(10, Whole(99), "LINEAR")
    /\ ret = Whole(5)

\* a + (b - a) * (f - pf) / (nf - pf)
LinearValue(a, b, f, pf, nf) ==
    LET span == Num(b.n * a.d - a.n * b.d, a.d * b.d)
    IN  RAdd(a, Num(span.n * (f - pf), span.d * (nf - pf)))

\* C6: strictly between a bracketing pair of scalar keyframes (pf, a), (nf, b)
\* whose prev keyframe is LINEAR, evaluate(f) = a + (b - a) * (f - pf) / (nf - pf).
C6_Linear ==
    EvaluatedLive =>
        \A i \in Brackets(EvaluatedTrack.keyframes, call.frame) :
            LET prev == EvaluatedTrack.keyframes[i]
                next == EvaluatedTrack.keyframes[i + 1]
            IN  (prev.interpolation = "LINEAR" /\ IsNum(prev.value) /\ IsNum(next.value))
                    => ret = LinearValue(prev.value, next.value, call.frame,
                                         prev.frame, next.frame)

\* keyframes (0, 0.0, LINEAR), (10, 100.0, LINEAR): evaluate(5) = 50.0
C6_Witness ==
    /\ EvaluatedLive
    /\ call.frame = 5
    /\ Len(EvaluatedTrack.keyframes) = 2
    /\ EvaluatedTrack.keyframes[1] = Keyframe(0, Whole(0), "LINEAR")
    /\ EvaluatedTrack.keyframes[2] = Keyframe(10, Whole(100), "LINEAR")
    /\ ret = Whole(50)

\* a descending pair at a frame that is not the midpoint
C6_WitnessDescending ==
    /\ EvaluatedLive
    /\ call.frame = 2
    /\ Len(EvaluatedTrack.keyframes) = 2
    /\ EvaluatedTrack.keyframes[1] = Keyframe(0, Whole(100), "LINEAR")
    /\ EvaluatedTrack.keyframes[2].frame = 5
    /\ EvaluatedTrack.keyframes[2].value = Whole(0)
    /\ ret = Whole(60)

RLeq(a, b) == a.n * b.d <= b.n * a.d
InUnit(r) == RLeq(Whole(0), r) /\ RLeq(r, Whole(1))

C7_WitnessBelow ==
    /\ EvaluatedLive
    /\ \E i \in Brackets(EvaluatedTrack.keyframes, call.frame) :
          LET prev == EvaluatedTrack.keyframes[i]
              next == EvaluatedTrack.keyframes[i + 1]
              progress == Num(call.frame - prev.frame, next.frame - prev.frame)
          IN  /\ prev.interpolation = "BEZIER"
              /\ BezierY(progress, prev.control_point_1, prev.control_point_2) < 0
              /\ prev.value # next.value
              /\ ret = prev.value

RoundTripped == call.op = "from_dict" /\ call.arg = "to_dict"

\* C8: from_dict(to_dict(set)) raises nothing and yields an AnimationSet that
\* evaluates every property at every frame to the value the original evaluates
\* to, with the same tracks, keyframes, control points and enabled flags.
C8_RoundTrip ==
    [][RoundTripped' =>
          /\ raised' = ""
          /\ \A prop \in Props, frame \in QueryFrames :
                GetValueAtFrame(tracks', prop, frame) = GetValueAtFrame(tracks, prop, frame)
          /\ tracks' = tracks]_vars

\* a round trip of a track that eases along a Bezier curve with control points
\* of its own
C8_Witness ==
    /\ RoundTripped
    /\ \E prop \in DOMAIN tracks :
          /\ Len(tracks[prop].keyframes) >= 2
          /\ tracks[prop].keyframes[1].interpolation = "BEZIER"
          /\ tracks[prop].keyframes[1].control_point_1 # DefaultControlPoint1
          /\ tracks[prop].keyframes[1].value # tracks[prop].keyframes[2].value

\* C9: loading the AnimationSet whose opacity track carries the interpolation
\* string "cubic" does not fail; that keyframe is loaded as LINEAR and every
\* other keyframe and track as persisted.
C9_UnknownInterpolationLoadsLinear ==
    (call.op = "from_dict" /\ call.arg = "unknown") =>
        /\ raised = ""
        /\ tracks = ManagerFromDict(
              [tracks |-> [position_x |-> LinearTrack,
                           opacity |-> PTrack("opacity", TRUE,
                                          << PKf(0, Whole(100), "linear"),
                                             PKf(5, Whole(0), "linear") >>)]])

-----------------------------------------------------------------------------
(* Properties of the compositor.                                           *)

CompositeCalled == call.op = "composite_frame"
\* the clip went through the loop over the active clips
Reported(clip) == \E i \in 1..Len(log) : log[i].clip = clip
\* the clip was rendered and its layer blended onto the frame
Blended(clip) ==
    \E i \in 1..Len(log) : log[i].clip = clip /\ log[i].outcome = "composited"
\* the buffer composite_frame starts from
Background == Full(Height, Width, call.arg)
NoneActive == \A i \in 1..Len(clips) : ~IsActive(clips[i], call.frame)

\* the selection of composite_frame: the clips that go through the loop are the
\* clips with start_frame <= frame < start_frame + duration, no other clip is
\* blended, and the frame is the background when there is none
ActiveClipSelection ==
    CompositeCalled =>
        /\ \A i \in 1..Len(clips) :
                /\ Reported(clips[i]) <=> IsActive(clips[i], call.frame)
                /\ Blended(clips[i]) => IsActive(clips[i], call.frame)
        /\ NoneActive => ret = Background

\* C10: after composite_frame(clips, frame, background_color) a clip of the list
\* has been rendered and blended onto the frame if and only if
\* start_frame <= frame < start_frame + duration, and the returned buffer is
\* background_color all over when no clip is active.
C10_BlendedIffActive ==
    CompositeCalled =>
        /\ \A i \in 1..Len(clips) :
                Blended(clips[i]) <=> IsActive(clips[i], call.frame)
        /\ NoneActive => ret = Background

\* an active clip whose processing raised nothing is left out of the frame
C10_ActiveClipLeftOut ==
    /\ CompositeCalled
    /\ \E i \in 1..Len(clips) :
            /\ IsActive(clips[i], call.frame)
            /\ \E j \in 1..Len(log) :
                    log[j].clip = clips[i] /\ log[j].outcome = "load failed"
    /\ ret = Background

\* the layer composite_frame renders for a clip at the frame of the last call
LayerImage(clip) == RenderLayer(CompositeLayer(clip, call.frame))
\* the clip covers the whole frame at full opacity, where the source put it
FullFrame(clip) ==
    /\ clip.media_type # "image"
    /\ CompositeLayer(clip, call.frame).raised = ""
    /\ CompositeLayer(clip, call.frame).transform =
            [Transform EXCEPT !.opacity = Whole(100)]
\* the entries of the log of the clips that were blended, in the order of the log
BlendedEntries == SelectSeq(log, LAMBDA entry : entry.outcome = "composited")

\* C11: within one composite_frame call the clips are gone through in descending
\* order of track, so a clip of a lower track is blended after every clip of a
\* higher track; when the clip blended last covers the whole frame at full
\* opacity the returned frame is that clip's content (for two such clips on the
\* tracks 0 and 1, the content of the clip on track 0).
C11_DescendingTrackOrder ==
    CompositeCalled =>
        /\ \A i, j \in 1..Len(log) : i < j => log[i].clip.track >= log[j].clip.track
        /\ \A i \in 1..Len(BlendedEntries) :
                /\ i = Len(BlendedEntries)
                /\ FullFrame(BlendedEntries[i].clip)
                => ret = LayerImage(BlendedEntries[i].clip)

\* two clips that cover the whole frame with different content, on the tracks 0
\* and 1, both blended: the frame is the content of the clip on track 0
C11_Witness ==
    /\ CompositeCalled
    /\ \E i, j \in 1..Len(clips) :
            /\ clips[i].track = 0 /\ clips[j].track = 1 /\ i < j
            /\ Blended(clips[i]) /\ Blended(clips[j])
            /\ FullFrame(clips[i]) /\ FullFrame(clips[j])
            /\ LayerImage(clips[i]) # LayerImage(clips[j])
            /\ ret = LayerImage(clips[i])

\* what the Animation Engine evaluates for a property of the clip at the frame
\* of the last call
Animated(clip, prop) ==
    GetValueAtFrame(clip.keyframes, prop, call.frame - clip.start_frame)
\* the lines of the log that carry a resolved transform
Resolved == {i \in 1..Len(log) : log[i].transform # None}

\* C12: in the Transform resolved for a clip, each of position_x, position_y,
\* scale_x, scale_y, rotation and opacity that the Animation Engine evaluates to
\* a value other than none equals that animated value: the static field of the
\* clip is neither added to it nor written over it.
C12_AnimatedOverridesStatic ==
    CompositeCalled =>
        \A i \in Resolved : \A prop \in DOMAIN Transform :
            Animated(log[i].clip, prop) # None
            => log[i].transform[prop] = Animated(log[i].clip, prop)

\* C13: for the movie clip spanning the frames [30, 90) whose position goes
\* LINEAR from (0, 0) at frame 30 to (50, 25) at frame 60, the Transform resolved
\* by composite_frame at frame 45 has the position (25, 12.5) exactly.
C13_HalfwayPosition ==
    CompositeCalled /\ call.frame = 45 =>
        \A i \in 1..Len(clips) :
            clips[i] = OverlayClip =>
                \E j \in Resolved :
                    /\ log[j].clip = OverlayClip
                    /\ log[j].transform.position_x = Whole(25)
                    /\ log[j].transform.position_y = Num(25, 2)

C13_Witness ==
    /\ CompositeCalled /\ call.frame = 45
    /\ \E i \in 1..Len(clips) : clips[i] = OverlayClip
    /\ \E j \in Resolved :
            /\ log[j].clip = OverlayClip
            /\ log[j].outcome = "composited"
            /\ log[j].transform.position_x = Whole(25)
            /\ log[j].transform.position_y = Num(25, 2)

Failed(clip) ==
    \E i \in 1..Len(log) :
        log[i].clip = clip /\ log[i].outcome \in {"error", "load failed"}

\* C15: a failure while processing one active clip never aborts composite_frame:
\* the call returns an image, the image that the other clips of the list give
\* in the same draw order.
C15_FailureIsolated ==
    CompositeCalled =>
        /\ ret.kind = "image"
        /\ ret = CompositorCompositeFrame(SelectSeq(clips, LAMBDA clip : ~Failed(clip)),
                                          call.frame, call.arg).result

C15_Witness ==
    /\ CompositeCalled
    /\ ret.kind = "image" /\ ret # Background
    /\ \E i, j \in 1..Len(log) :
            /\ i < j
            /\ log[i].outcome = "error"
            /\ log[j].outcome = "composited"

\* the clips whose content is missing, or of a kind that is not rendered
ContentMissing(clip) ==
    \/ ~Exists(clip.media_path)
    \/ clip.media_type \notin {"image", "video", "audio"}

\* C16: for an active clip of any media kind whose content is missing,
\* unreadable or of an unsupported kind, composite_frame blends a placeholder
\* layer onto the output: the clip is not left out of the frame.
C16_PlaceholderBlended ==
    CompositeCalled =>
        \A i \in Resolved :
            ContentMissing(log[i].clip) => log[i].outcome = "composited"

\* C17: two composite_frame calls with the same clips, effect lists included,
\* the same frame and the same background colour, and neither set_resolution nor
\* clear_cache between them, return the same image, whatever effects the clips
\* carry.
C17_Deterministic ==
    [][(CompositeCalled /\ call' = call /\ clips' = clips) => ret' = ret]_vars

\* the base with the overlay drawn over it, the overlay's top-left corner at
\* column x and row y of the base; what falls outside the base is not drawn
Stamped(base, overlay, x, y) ==
    [base EXCEPT !.px =
        [p \in DOMAIN base.px |->
            IF /\ y <= p[1] /\ p[1] < y + overlay.height
               /\ x <= p[2] /\ p[2] < x + overlay.width
            THEN overlay.px[<<p[1] - y, p[2] - x>>]
            ELSE base.px[p]]]

\* the one clip of the list is a picture, blended at full opacity
PictureBlended ==
    /\ CompositeCalled
    /\ Len(clips) = 1 /\ Len(log) = 1
    /\ clips[1].media_type = "image"
    /\ log[1].outcome = "composited"
    /\ log[1].transform.opacity = Whole(100)

\* C27: the layer of a picture, of the size the frame source emitted, is drawn
\* with its top-left corner at the centred offset moved by the resolved
\* position, ((bw - ow) div 2 + int(position_x), (bh - oh) div 2 +
\* int(position_y)), whatever the resolved position is.
C27_PictureAtShiftedCentre ==
    PictureBlended =>
        ret = Stamped(Background, LayerImage(clips[1]),
                      (Width - LayerImage(clips[1]).width) \div 2
                          + TruncInt(log[1].transform.position_x),
                      (Height - LayerImage(clips[1]).height) \div 2
                          + TruncInt(log[1].transform.position_y))

\* the scaled content about the centre of a canvas of the content's size: padded
\* with black where the content is smaller, cropped where it is larger
ScaledAboutCentre(image, new_h, new_w) ==
    Raster(image.height, image.width,
           [p \in Pixels(image.height, image.width) |->
                LET y == p[1] - ((image.height - new_h) \div 2)
                    x == p[2] - ((image.width - new_w) \div 2)
                IN  IF 0 <= y /\ y < new_h /\ 0 <= x /\ x < new_w
                    THEN Resize(image, new_h, new_w).px[<<y, x>>]
                    ELSE 0])

\* the one clip of the list is a movie, blended at full opacity where it is
MovieBlended ==
    /\ CompositeCalled
    /\ Len(clips) = 1 /\ Len(log) = 1
    /\ clips[1].media_type = "video"
    /\ log[1].outcome = "composited"
    /\ log[1].transform.opacity = Whole(100)
    /\ log[1].transform.position_x = Whole(0)
    /\ log[1].transform.position_y = Whole(0)

\* C29: the layer of a clip that is no picture keeps the size of the frame under
\* a scale: padded about the centre when the scale is below 100, cropped about
\* the centre when it is above 100; with scale_x or scale_y above 100 the frame
\* shows the centre of the enlarged content, not a black canvas.
C29_ScaledAboutCentre ==
    MovieBlended =>
        LET transform == log[1].transform
            new_w == TruncInt(RMul(Whole(Width), RMul(transform.scale_x, Num(1, 100))))
            new_h == TruncInt(RMul(Whole(Height), RMul(transform.scale_y, Num(1, 100))))
        IN  ret = ScaledAboutCentre(LayerImage(clips[1]), new_h, new_w)

\* where the clip is in the list composite_frame was called with
ListIndex(clip) == CHOOSE k \in 1..Len(clips) : clips[k] = clip

\* C25: the active clips of one track are gone through in the order of the clip
\* list composite_frame was called with; when the active clips are two clips of
\* one track that both cover the whole frame at full opacity, the returned frame
\* is the content of the one that is later in the list.
C25_SameTrackInListOrder ==
    CompositeCalled =>
        /\ \A i, j \in 1..Len(log) :
                (i < j /\ log[i].clip.track = log[j].clip.track)
                    => ListIndex(log[i].clip) < ListIndex(log[j].clip)
        /\ ( /\ Len(log) = 2
             /\ log[1].clip.track = log[2].clip.track
             /\ \A i \in 1..2 : FullFrame(log[i].clip) /\ log[i].outcome = "composited" )
           => ret = LayerImage(IF ListIndex(log[1].clip) > ListIndex(log[2].clip)
                               THEN log[1].clip ELSE log[2].clip)

\* the song and then the movie on one track, both active: the frame is the
\* movie's, which is not the song's
C25_Witness ==
    /\ CompositeCalled
    /\ Len(log) = 2 /\ Len(clips) = 2
    /\ clips[1].media_path = Song /\ clips[2].media_path = Movie
    /\ clips[1].track = clips[2].track
    /\ \A i \in 1..2 : FullFrame(clips[i]) /\ log[i].outcome = "composited"
    /\ ret = LayerImage(clips[2])
    /\ ret # LayerImage(clips[1])

-----------------------------------------------------------------------------
(* Properties of the effect engine.                                        *)

EffectsCalled == call.op = "apply_effects"

\* the running image the i-th effect of the list found
Before(i) == IF i = 1 THEN call.arg ELSE log[i - 1].result

\* effect.apply of the i-th effect raises on the running image it found
Fails(i) == EffectApply(effect_list[i], Before(i), log[i].seed).kind = "raised"

\* C18: in apply_effects an effect with enabled = false is never applied: the
\* running image after it is the running image before it, and with every effect
\* disabled the output is the input, pixel for pixel.
C18_DisabledNeverApplied ==
    EffectsCalled =>
        /\ Len(log) = Len(effect_list)
        /\ \A i \in 1..Len(log) :
                ~effect_list[i].enabled =>
                    log[i].outcome = "skipped" /\ log[i].result = Before(i)
        /\ (\A i \in 1..Len(effect_list) : ~effect_list[i].enabled) => ret = call.arg

C18_Witness ==
    /\ EffectsCalled
    /\ ret # call.arg
    /\ \E i, j \in 1..Len(log) :
            /\ i < j
            /\ effect_list[i] = Disabled(Brighten)
            /\ log[i].outcome = "skipped"
            /\ log[j].outcome = "applied"

\* C19: when the transform of an enabled effect fails inside apply_effects, the
\* running image stays as it was before that effect, every later effect of the
\* list is still applied in order, the call returns an image, and the effect
\* stays enabled: it is attempted at every call.
C19_FailureSkipsOneEffect ==
    EffectsCalled =>
        /\ ret.kind = "image"
        /\ Len(log) = Len(effect_list)
        /\ ret = Before(Len(log) + 1)
        /\ \A i \in 1..Len(log) :
                /\ log[i].effect = effect_list[i]
                /\ log[i].outcome = "error" <=> effect_list[i].enabled /\ Fails(i)
                /\ log[i].outcome = "error" => log[i].result = Before(i)
                /\ effect_list[i].enabled /\ ~Fails(i) =>
                        /\ log[i].outcome = "applied"
                        /\ log[i].result =
                                Processed(Before(i), effect_list[i], log[i].seed,
                                          EffectApply(effect_list[i], Before(i),
                                                      log[i].seed)).result

C19_Witness ==
    /\ EffectsCalled
    /\ ret.kind = "image"
    /\ \E i, j \in 1..Len(log) :
            /\ i < j
            /\ log[i].outcome = "error"
            /\ effect_list[i].enabled
            /\ log[j].outcome = "applied"
            /\ log[j].result # Before(j)

\* C26: apply_effects goes through the list in its order, and every enabled
\* effect is applied to the running image the effects before it left, the first
\* one to the image of the caller; after an effect of blend mode NORMAL and
\* opacity 100 the running image is exactly that effect's output; the returned
\* image is the last running image.
C26_AppliedInListOrder ==
    EffectsCalled =>
        /\ Len(log) = Len(effect_list)
        /\ ret = Before(Len(log) + 1)
        /\ \A i \in 1..Len(log) :
                /\ log[i].effect = effect_list[i]
                /\ log[i].seed = log[1].seed + i - 1
                /\ ( /\ effect_list[i].enabled /\ ~Fails(i)
                     /\ effect_list[i].blend_mode = "normal"
                     /\ effect_list[i].opacity = 100 )
                   => log[i].result = EffectApply(effect_list[i], Before(i), log[i].seed)

\* the image brightened, then grained, then brightened again
C26_Witness ==
    /\ EffectsCalled
    /\ effect_list = <<Brighten, Grain, Brighten>>
    /\ \A i \in 1..3 : log[i].outcome = "applied" /\ log[i].result # Before(i)
    /\ ret = ColorCorrectionApply(Brighten,
                 NoiseApply(Grain, ColorCorrectionApply(Brighten, call.arg),
                            log[2].seed))
    /\ ret # call.arg

-----------------------------------------------------------------------------
(* Properties of the frame cache.                                          *)

\* C20: after any sequence of _cache_frame, set_resolution and clear_cache
\* calls, every entry of the frame cache was put while the Compositor had the
\* width and height it has now: a set_resolution call that changes the
\* resolution leaves the cache empty, and clear_cache always leaves it empty.
C20_CacheOfCurrentResolution ==
    [][/\ \A i \in 1..Len(compositor'.frame_cache) :
            compositor'.frame_cache[i].resolution =
                <<compositor'.width, compositor'.height>>
       /\ call'.op = "clear_cache" => compositor'.frame_cache = <<>>
       /\ (/\ call'.op = "set_resolution"
           /\ <<compositor'.width, compositor'.height>>
                # <<compositor.width, compositor.height>>)
          => compositor'.frame_cache = <<>>
       /\ Len(compositor'.frame_cache) <= MaxCacheSize]_vars

C20_Witness ==
    /\ call.op = "_cache_frame"
    /\ <<compositor.width, compositor.height>> = <<Width - 1, Height - 1>>
    /\ Len(compositor.frame_cache) = MaxCacheSize
    /\ compositor.frame_cache[1].key # "frame_0:"

\* the entries of a cache under the keys other than the one a call puts
OtherKeys(frame_cache, cache_key) ==
    SelectSeq(frame_cache, LAMBDA entry : entry.key # cache_key)

\* C28: after any sequence of _cache_frame calls the cache holds at most
\* max_cache_size entries, and a call that evicts evicts the entry that was
\* inserted earliest of those the cache held: the other entries stay, in the
\* order of their insertion.
C28_BoundedOldestFirst ==
    [][call'.op = "_cache_frame" =>
          LET before == compositor.frame_cache
              after == compositor'.frame_cache
              cache_key == call'.property_name
          IN  /\ Len(after) <= MaxCacheSize
              /\ \E i \in 1..Len(after) : after[i].key = cache_key
              /\ \/ OtherKeys(after, cache_key) = OtherKeys(before, cache_key)
                 \/ /\ before # <<>>
                    /\ OtherKeys(after, cache_key) = OtherKeys(Tail(before), cache_key)
              /\ \A i \in 1..Len(log') : log'[i] = before[1]]_vars

\* a _cache_frame call on a full cache evicted the entry of frame 0, which was
\* put first, and kept the entry of frame 1
C28_Witness ==
    /\ call.op = "_cache_frame"
    /\ call.property_name = "frame_2:"
    /\ Len(log) = 1 /\ log[1].key = "frame_0:"
    /\ Len(compositor.frame_cache) = MaxCacheSize
    /\ compositor.frame_cache[1].key = "frame_1:"
    /\ compositor.frame_cache[MaxCacheSize].key = "frame_2:"

-----------------------------------------------------------------------------
(* Properties of the clips of the timeline.                                *)

\* C21: after any sequence of resize and split_at_frame calls on clips that
\* start with a duration of 1 or more, every clip, the shortened one and the one
\* split_at_frame returns, has a duration of 1 or more.
C21_DurationAtLeastOne ==
    \A i \in 1..Len(clips) : clips[i].duration >= 1

\* C22: after any sequence of add_effect, remove_effect, duplicate and
\* split_at_frame calls no Effect object is in the effects list of more than
\* one clip.
C22_EffectsNotShared ==
    \A i, j \in 1..Len(clips) :
        i # j =>
            \A a \in 1..Len(clips[i].effects), b \in 1..Len(clips[j].effects) :
                clips[i].effects[a].id # clips[j].effects[b].id

-----------------------------------------------------------------------------
(* Properties of loaded tracks.                                            *)

\* C23: a track that from_dict made of any persisted track, one whose keyframes
\* array is out of ascending order or repeats a frame included, holds the track
\* invariant: frames strictly ascending, one keyframe per frame.
C23_LoadedTrackSorted ==
    (call.op = "from_dict" /\ raised = "") =>
        \A prop \in DOMAIN tracks :
            \A i, j \in 1..Len(tracks[prop].keyframes) :
                i < j => tracks[prop].keyframes[i].frame < tracks[prop].keyframes[j].frame

-----------------------------------------------------------------------------
(* Properties of add_keyframe.                                             *)

\* the keyframes of a track that are not at the frame, in the order of the track
AwayFrom(keyframes, frame) ==
    SelectSeq(keyframes, LAMBDA kf : kf.frame # frame)

\* the keyframes of a track that are at the frame
AtFrame(keyframes, frame) ==
    SelectSeq(keyframes, LAMBDA kf : kf.frame = frame)

\* the keyframes of a property before a call, none when it has no track yet
KeyframesOf(mgr, property_name) ==
    IF property_name \in DOMAIN mgr THEN mgr[property_name].keyframes ELSE <<>>

\* C24: add_keyframe(property, f, v, interp) leaves the track of the property
\* with exactly one keyframe at frame f, which carries the value v and the
\* interpolation interp; the keyframes of the track at other frames are the
\* ones it had, unchanged; the tracks of the other properties are unchanged.
C24_AddKeyframeEffect ==
    [][call'.op = "add_keyframe" =>
          /\ Len(AtFrame(tracks'[call'.property_name].keyframes, call'.frame)) = 1
          /\ \A i \in 1..Len(tracks'[call'.property_name].keyframes) :
                 tracks'[call'.property_name].keyframes[i].frame = call'.frame =>
                     /\ tracks'[call'.property_name].keyframes[i].value = call'.arg.value
                     /\ tracks'[call'.property_name].keyframes[i].interpolation
                            = call'.arg.interpolation
          /\ AwayFrom(tracks'[call'.property_name].keyframes, call'.frame)
                 = AwayFrom(KeyframesOf(tracks, call'.property_name), call'.frame)
          /\ DOMAIN tracks' = DOMAIN tracks \cup {call'.property_name}
          /\ \A prop \in DOMAIN tracks \ {call'.property_name} :
                 tracks'[prop] = tracks[prop]]_vars

\* add_keyframe keyed frame 10 of position_x with a held 100, next to a loaded
\* track of the opacity
C24_Witness ==
    /\ call.op = "add_keyframe"
    /\ call.frame = 10
    /\ "opacity" \in DOMAIN tracks
    /\ Len(tracks["opacity"].keyframes) = 2
    /\ tracks[call.property_name].keyframes = << Keyframe(10, Whole(100), "HOLD") >>

\* add_keyframe keyed the middle one of three frames with a held 100
C24_WitnessBetween ==
    /\ call.op = "add_keyframe"
    /\ call.frame = 5
    /\ Len(tracks[call.property_name].keyframes) = 3
    /\ tracks[call.property_name].keyframes[2] = Keyframe(5, Whole(100), "HOLD")

-----------------------------------------------------------------------------
(* Properties of the command manager.                                      *)

\* -1 <= current_index <= len(command_history) - 1 <= max_history - 1
HistoryInBounds(cm) ==
    /\ -1 <= cm.current_index
    /\ cm.current_index <= Len(cm.command_history) - 1
    /\ Len(cm.command_history) <= cm.max_history

\* C30: over every sequence of execute_command, undo, redo and clear_history
\* calls current_index stays between -1 and len(command_history) - 1 and the
\* history holds at most max_history commands; undo returns false exactly when
\* current_index is -1, redo returns false exactly when current_index is
\* len(command_history) - 1, and a call that returns false changes neither the
\* manager nor the clips; after execute_command no command is redoable, and the
\* commands up to current_index are those that were there, the oldest dropped
\* when the history is full.
C30_UndoHistory ==
    [][/\ HistoryInBounds(command_manager)
       /\ HistoryInBounds(command_manager')
       /\ call'.op = "undo" =>
             /\ ret' = Boolean(command_manager.current_index # -1)
             /\ ret' = Boolean(FALSE) =>
                    command_manager' = command_manager /\ clips' = clips
             /\ ret' = Boolean(TRUE) =>
                    command_manager'.current_index = command_manager.current_index - 1
       /\ call'.op = "redo" =>
             /\ ret' = Boolean(command_manager.current_index
                                  # Len(command_manager.command_history) - 1)
             /\ ret' = Boolean(FALSE) =>
                    command_manager' = command_manager /\ clips' = clips
             /\ ret' = Boolean(TRUE) =>
                    command_manager'.current_index = command_manager.current_index + 1
       /\ call'.op = "execute_command" =>
             LET before == SubSeq(command_manager.command_history, 1,
                                  command_manager.current_index + 1)
                 after == command_manager'.command_history
             IN  /\ command_manager'.current_index = Len(after) - 1
                 /\ after[Len(after)] = call'.arg
                 /\ after \in {Append(before, call'.arg), Tail(Append(before, call'.arg))}
                 /\ after = Tail(Append(before, call'.arg))
                        => Len(before) = command_manager.max_history]_vars

\* execute_command after two undos: the call found two redoable commands, and
\* left one command before its own
C30_Witness ==
    /\ call.op = "execute_command"
    /\ log = << [current_index |-> 0, length |-> 3] >>
    /\ Len(command_manager.command_history) = 2
    /\ command_manager.current_index = 1
    /\ command_manager.command_history[2] = call.arg

====
